---- MODULE Spec2Model ----
(***************************************************************************)
(* The real-time (time-critical) processor of ReaLearn:                    *)
(* main/src/domain/real_time_processor.rs.                                 *)
(*                                                                         *)
(* The struct RealTimeProcessor is the record variable rt, whose fields    *)
(* keep the names of the struct.  The two crossbeam channels it receives   *)
(* from are the sequences normal_task_queue and feedback_task_queue.  The  *)
(* two senders and the host callback are output ports: during one call of  *)
(* a handler the fields control_main_task_sender, normal_main_task_sender  *)
(* and host collect, in order, what that call has sent through them.       *)
(*                                                                         *)
(* idle() runs on the audio thread while the main thread keeps sending, so *)
(* idle is a sequence of steps (one try_recv per step) that interleave     *)
(* with the sends.  The MIDI handlers run on the audio thread as well and  *)
(* therefore only between two calls of idle.                               *)
(***************************************************************************)
EXTENDS Integers, Sequences, FiniteSets, TLC

\* ---------------------------------------------------------------- constants
NORMAL_BULK_SIZE == 100
FEEDBACK_BULK_SIZE == 100

\* ------------------------------------------------------------------- bounds
\* Number of MIDI events a device can deliver in one cycle.
MaxDevEvents == 1
\* The burst of SpecBulk has NORMAL_BULK_SIZE + BurstExtra tasks.
BurstExtra == 3

\* ------------------------------------------------------------ MIDI messages
\* A short message is its type and its first data byte (key or controller
\* number); data values are not needed by any routing decision.
Msg(t, n) == [type |-> t, num |-> n]

NoteOn == Msg("NoteOn", 60)
NoteOff == Msg("NoteOff", 60)
CC(n) == Msg("ControlChange", n)
ActiveSensing == Msg("ActiveSensing", 0)
TimingClock == Msg("TimingClock", 0)

\* The messages the environment sends.
Msgs == {NoteOn, NoteOff, CC(99), CC(98), CC(6), CC(38), ActiveSensing, TimingClock}

\* process_incoming_midi: the three groups of short message types.
NormalTypes ==
    {"NoteOff", "NoteOn", "PolyphonicKeyPressure", "ControlChange", "ProgramChange",
     "ChannelPressure", "PitchBendChange", "Start", "Continue", "Stop"}

UnprocessedTypes ==
    {"SystemExclusiveStart", "TimeCodeQuarterFrame", "SongPositionPointer", "SongSelect",
     "SystemCommonUndefined1", "SystemCommonUndefined2", "TuneRequest", "SystemExclusiveEnd",
     "SystemRealTimeUndefined1", "SystemRealTimeUndefined2", "ActiveSensing", "SystemReset"}

\* ------------------------------------------------------------ source values
\* MidiSourceValue: Plain(msg), ParameterNumber(msg), ControlChange14Bit(msg), Tempo(bpm).
\* For ParameterNumber, bits says whether the value has 7 or 14 bits.
Plain(msg) == [kind |-> "Plain", type |-> msg.type, num |-> msg.num, bits |-> 7]
ParameterNumber(number, bits) ==
    [kind |-> "ParameterNumber", type |-> "ParameterNumber", num |-> number, bits |-> bits]
ControlChange14Bit(msb) ==
    [kind |-> "ControlChange14Bit", type |-> "ControlChange14Bit", num |-> msb, bits |-> 14]
Tempo == [kind |-> "Tempo", type |-> "Tempo", num |-> 0, bits |-> 7]

NoValue == [kind |-> "None", type |-> "None", num |-> 0, bits |-> 7]

\* MidiSourceValue::to_short_messages: the short messages a value is made of.
to_short_messages(value) ==
    CASE value.kind = "Plain" -> <<Msg(value.type, value.num)>>
      [] value.kind = "ParameterNumber" ->
            IF value.bits = 14 THEN <<CC(99), CC(98), CC(38), CC(6)>>
            ELSE <<CC(99), CC(98), CC(6)>>
      [] value.kind = "ControlChange14Bit" -> <<CC(value.num), CC(value.num + 32)>>
      [] OTHER -> <<>>

\* ------------------------------------------------------------------ sources
\* MidiSource of a mapping.
Source(k, n) == [kind |-> k, num |-> n]
NoteVelocity == Source("NoteVelocity", 60)
ControlChangeValue == Source("ControlChangeValue", 6)
ParameterNumberValue == Source("ParameterNumberValue", 0)
OtherParameterNumberValue == Source("ParameterNumberValue", 1)
ControlChange14BitValue == Source("ControlChange14BitValue", 6)
ClockTempo == Source("ClockTempo", 0)
NoSource == Source("None", 0)

Sources == {NoteVelocity, ControlChangeValue, ParameterNumberValue, OtherParameterNumberValue,
            ControlChange14BitValue, ClockTempo}

\* Controller numbers that belong to (N)RPN messages.
ParameterNumberControllers == {98, 99, 100, 101, 38, 6}

\* MidiSource::control: does the source produce a control value for this
\* source value?  The value is 0 for a note-off and 1 otherwise.
SourceMatches(source, value) ==
    CASE source.kind = "NoteVelocity" ->
            value.kind = "Plain" /\ value.type \in {"NoteOn", "NoteOff"} /\ value.num = source.num
      [] source.kind = "ControlChangeValue" ->
            value.kind = "Plain" /\ value.type = "ControlChange" /\ value.num = source.num
      [] source.kind = "ParameterNumberValue" ->
            value.kind = "ParameterNumber" /\ value.num = source.num
      [] source.kind = "ControlChange14BitValue" ->
            value.kind = "ControlChange14Bit" /\ value.num = source.num
      [] source.kind = "ClockTempo" -> value.kind = "Tempo"
      [] OTHER -> FALSE

SourceControlValue(source, value) ==
    IF value.kind = "Plain" /\ value.type = "NoteOff" THEN 0 ELSE 1

\* MidiSource::consumes: the message is part of a multi-message value of
\* this source and is therefore not to be processed as a plain message.
SourceConsumes(source, msg) ==
    CASE source.kind = "ControlChange14BitValue" ->
            msg.type = "ControlChange" /\ msg.num \in {source.num, source.num + 32}
      [] source.kind = "ParameterNumberValue" ->
            msg.type = "ControlChange" /\ msg.num \in ParameterNumberControllers
      [] OTHER -> FALSE

\* MidiSource::from_source_value: the source a learned value stands for.
from_source_value(value) ==
    CASE value.kind = "Plain" /\ value.type \in {"NoteOn", "NoteOff"} ->
            Source("NoteVelocity", value.num)
      [] value.kind = "Plain" /\ value.type = "ControlChange" ->
            Source("ControlChangeValue", value.num)
      [] value.kind = "ParameterNumber" -> Source("ParameterNumberValue", value.num)
      [] value.kind = "ControlChange14Bit" -> Source("ControlChange14BitValue", value.num)
      [] value.kind = "Tempo" -> ClockTempo
      [] OTHER -> NoSource

\* ----------------------------------------------------------------- mappings
MappingIds == {1, 2}
\* An id the real-time table never holds.
UnknownId == 1 + Cardinality(MappingIds)

\* RealTimeProcessorMapping: id, source, the user's enable flag and the two
\* activation bits.
Mapping(id, source) ==
    [id |-> id, source |-> source, control_is_enabled |-> TRUE,
     mapping_is_active |-> TRUE, target_is_active |-> TRUE]

control_is_effectively_on(m) ==
    m.control_is_enabled /\ m.mapping_is_active /\ m.target_is_active

update_target_activation(m, is_active) == [m EXCEPT !.target_is_active = is_active]
update_mapping_activation(m, is_active) == [m EXCEPT !.mapping_is_active = is_active]

\* RealTimeProcessorMapping::control and ::consumes
mapping_control(m, value) == SourceMatches(m.source, value)
mapping_consumes(m, msg) == SourceConsumes(m.source, msg)

EmptyTable == [id \in {} |-> Mapping(id, NoSource)]

\* ----------------------------------------------------------------- scanners
\* ParameterNumberMessageScanner (one channel): which parts of an NRPN have
\* been seen.  feed returns the scanner and the completed message, if any.
NrpnScannerInit == [number_msb |-> FALSE, number_lsb |-> FALSE, value_lsb |-> FALSE]

NrpnFeed(sc, msg) ==
    IF msg.type # "ControlChange" THEN [sc |-> sc, out |-> NoValue]
    ELSE CASE msg.num = 99 ->
                [sc |-> [sc EXCEPT !.number_msb = TRUE, !.value_lsb = FALSE], out |-> NoValue]
           [] msg.num = 98 ->
                [sc |-> [sc EXCEPT !.number_lsb = TRUE, !.value_lsb = FALSE], out |-> NoValue]
           [] msg.num = 38 ->
                [sc |-> [sc EXCEPT !.value_lsb = TRUE], out |-> NoValue]
           [] msg.num = 6 ->
                IF sc.number_msb /\ sc.number_lsb
                THEN [sc |-> [sc EXCEPT !.value_lsb = FALSE],
                      out |-> ParameterNumber(0, IF sc.value_lsb THEN 14 ELSE 7)]
                ELSE [sc |-> sc, out |-> NoValue]
           [] OTHER -> [sc |-> sc, out |-> NoValue]

\* ControlChange14BitMessageScanner (one channel): the controller number of
\* the last MSB message, or -1.
Cc14ScannerInit == [msb_controller_number |-> -1]

Cc14Feed(sc, msg) ==
    IF msg.type # "ControlChange" THEN [sc |-> sc, out |-> NoValue]
    ELSE IF msg.num \in 0..31
         THEN [sc |-> [sc EXCEPT !.msb_controller_number = msg.num], out |-> NoValue]
         ELSE IF msg.num \in 32..63 /\ sc.msb_controller_number = msg.num - 32
              THEN [sc |-> sc, out |-> ControlChange14Bit(sc.msb_controller_number)]
              ELSE [sc |-> sc, out |-> NoValue]

\* MidiSourceScanner: Initial, or waiting for more CC messages of the
\* controller it has seen (to tell an encoder from a fader).  guess says
\* whether enough messages or time have passed for the scanner to decide.
SourceScannerInit == [state |-> "Initial", num |-> 0]

SourceScannerGuessOrNot(sc, guess) ==
    IF sc.state = "WaitingForMoreCcMsgs" /\ guess
    THEN [sc |-> SourceScannerInit, out |-> Source("ControlChangeValue", sc.num)]
    ELSE [sc |-> sc, out |-> NoSource]

SourceScannerFeed(sc, value, guess) ==
    IF sc.state = "Initial"
    THEN IF value.kind = "Plain" /\ value.type = "ControlChange"
         THEN [sc |-> [state |-> "WaitingForMoreCcMsgs", num |-> value.num], out |-> NoSource]
         ELSE [sc |-> sc, out |-> from_source_value(value)]
    ELSE IF value.kind \in {"ParameterNumber", "ControlChange14Bit"}
         THEN [sc |-> SourceScannerInit, out |-> from_source_value(value)]
         ELSE SourceScannerGuessOrNot(sc, guess)

SourceScannerPoll(sc, guess) == SourceScannerGuessOrNot(sc, guess)

\* -------------------------------------------------------------------- tasks
NoSettings ==
    [let_matched_events_through |-> FALSE, let_unmatched_events_through |-> FALSE,
     midi_control_input |-> "FxInput", midi_feedback_output |-> "None"]

\* NormalRealTimeTask: every variant is a record of the same shape.
Task(t, ms, ids, ups, st) ==
    [type |-> t, mappings |-> ms, ids |-> ids, updates |-> ups, settings |-> st]

UpdateAllMappings(ms) == Task("UpdateAllMappings", ms, {}, <<>>, NoSettings)
UpdateSingleMapping(m) == Task("UpdateSingleMapping", <<m>>, {}, <<>>, NoSettings)
UpdateSettings(st) == Task("UpdateSettings", <<>>, {}, <<>>, st)
EnableMappingsExclusively(ids) == Task("EnableMappingsExclusively", <<>>, ids, <<>>, NoSettings)
UpdateMappingActivations(ups) == Task("UpdateMappingActivations", <<>>, {}, ups, NoSettings)
LogDebugInfo == Task("LogDebugInfo", <<>>, {}, <<>>, NoSettings)
UpdateSampleRate == Task("UpdateSampleRate", <<>>, {}, <<>>, NoSettings)
StartLearnSource == Task("StartLearnSource", <<>>, {}, <<>>, NoSettings)
StopLearnSource == Task("StopLearnSource", <<>>, {}, <<>>, NoSettings)
NoTask == Task("None", <<>>, {}, <<>>, NoSettings)

\* MappingActivationUpdate
ActivationUpdate(id, is_active) == [id |-> id, is_active |-> is_active]

\* FeedbackRealTimeTask::Feedback(source_value)
Feedback(value) == [type |-> "Feedback", value |-> value]

\* ControlMainTask::Control and NormalMainTask::LearnSource
ControlTask(id, value) == [type |-> "Control", mapping_id |-> id, value |-> value]
LearnSourceTask(source) == [type |-> "LearnSource", source |-> source]

\* ------------------------------------------------------ the real-time state
\* RealTimeProcessor::new
NewRealTimeProcessor ==
    [control_state |-> "Controlling",
     midi_control_input |-> "FxInput",
     midi_feedback_output |-> "None",
     mappings |-> EmptyTable,
     let_matched_events_through |-> FALSE,
     let_unmatched_events_through |-> FALSE,
     nrpn_scanner |-> NrpnScannerInit,
     cc_14_bit_scanner |-> Cc14ScannerInit,
     was_playing_in_last_cycle |-> FALSE,
     source_scanner |-> SourceScannerInit,
     \* what the current handler call has sent to the coordination tier,
     \* passed to the host and written to the feedback device
     control_main_task_sender |-> <<>>,
     normal_main_task_sender |-> <<>>,
     host |-> <<>>,
     device_out |-> <<>>,
     \* the audio thread has panicked
     panicked |-> FALSE,
     \* the receivers of the two channels to the coordination tier: "Draining",
     \* "Stalled" (not draining, the channels are full) or "Dropped"
     main_receivers |-> "Draining",
     \* the audio thread is blocked in a send
     blocked |-> FALSE,
     \* the ids of the mappings whose destructor the last normal task has run
     \* on the audio thread
     dropped_in_place |-> {}]

\* The audio thread does not go on: it has panicked or it is blocked.
Halted(r) == r.panicked \/ r.blocked

\* A handler call starts with nothing sent yet.
BeginCall(r) ==
    [r EXCEPT !.control_main_task_sender = <<>>, !.normal_main_task_sender = <<>>,
              !.host = <<>>, !.device_out = <<>>, !.dropped_in_place = {}]

\* ------------------------------------------------------------ MIDI handlers
\* The environment of one handler call: order is the order in which the
\* HashMap mappings is iterated, playing is what the host reports for the
\* transport, bpm says whether the clock calculator yields a tempo for a
\* timing clock, guess whether the source scanner is ready to decide.
Env(order, playing, bpm, guess) ==
    [order |-> order, playing |-> playing, bpm |-> bpm, guess |-> guess]

\* An environment in which nothing happens.
QuietEnv == Env(<<1, 2>>, FALSE, FALSE, FALSE)

\* RealTimeProcessor::forward_midi; via names the calling path.
forward_midi(r, via, msg) ==
    IF Halted(r) THEN r ELSE [r EXCEPT !.host = Append(@, [via |-> via, msg |-> msg])]

\* forward_midi for every message of msgs, in order.
forward_all(r, via, msgs) ==
    IF Halted(r) THEN r
    ELSE [r EXCEPT !.host = @ \o [i \in 1..Len(msgs) |-> [via |-> via, msg |-> msgs[i]]]]

\* A matched path that forwards whatever the control input is.
process_matched_short_AnyInput(r, msg) ==
    IF ~r.let_matched_events_through THEN r
    ELSE forward_midi(r, "matched", msg)

\* A matched path that looks at the flag of the unmatched path.
process_matched_short_OtherFlag(r, msg) ==
    IF r.midi_control_input # "FxInput" THEN r
    ELSE IF ~r.let_unmatched_events_through THEN r
    ELSE forward_midi(r, "matched", msg)

\* RealTimeProcessor::process_matched_short
process_matched_short(r, msg) ==
    IF r.midi_control_input # "FxInput" THEN r
    ELSE IF ~r.let_matched_events_through THEN r
    ELSE forward_midi(r, "matched", msg)

\* An unmatched path that looks at the flag of the matched path.
process_unmatched_short_OtherFlag(r, msg) ==
    IF r.midi_control_input # "FxInput" THEN r
    ELSE IF ~r.let_matched_events_through THEN r
    ELSE forward_midi(r, "unmatched", msg)

\* RealTimeProcessor::process_unmatched_short
process_unmatched_short(r, msg) ==
    IF r.midi_control_input # "FxInput" THEN r
    ELSE IF ~r.let_unmatched_events_through THEN r
    ELSE forward_midi(r, "unmatched", msg)

\* RealTimeProcessor::is_consumed
is_consumed(r, msg) ==
    \E id \in DOMAIN r.mappings :
        control_is_effectively_on(r.mappings[id]) /\ mapping_consumes(r.mappings[id], msg)

\* A control() that does not filter by control_is_effectively_on.
ControlHitsOfAll(r, value, order) ==
    SelectSeq(order, LAMBDA id : /\ id \in DOMAIN r.mappings
                                 /\ mapping_control(r.mappings[id], value))

\* The mappings control() sends a task for, in iteration order.
ControlHits(r, value, order) ==
    SelectSeq(order, LAMBDA id : /\ id \in DOMAIN r.mappings
                                 /\ control_is_effectively_on(r.mappings[id])
                                 /\ mapping_control(r.mappings[id], value))

\* crossbeam_channel::Sender::send(..).unwrap() of the tasks, one after the
\* other, through the sender named port: a dropped receiver makes send fail
\* and unwrap panic, a full channel makes send block.
send_all(r, port, tasks) ==
    IF Halted(r) \/ tasks = <<>> THEN r
    ELSE CASE r.main_receivers = "Dropped" -> [r EXCEPT !.panicked = TRUE]
           [] r.main_receivers = "Stalled" -> [r EXCEPT !.blocked = TRUE]
           [] OTHER -> [r EXCEPT ![port] = @ \o tasks]

\* A control() that ignores the result of send.
control_IgnoringSendError(r, value, order) ==
    LET hits == ControlHits(r, value, order)
        tasks == [i \in 1..Len(hits) |->
                    ControlTask(hits[i], SourceControlValue(r.mappings[hits[i]].source, value))]
    IN [r |-> IF r.main_receivers = "Dropped" THEN r
              ELSE send_all(r, "control_main_task_sender", tasks),
        matched |-> Len(hits) > 0]

\* RealTimeProcessor::control: the processor after the sends, and matched.
control(r, value, order) ==
    LET hits == ControlHits(r, value, order)
        tasks == [i \in 1..Len(hits) |->
                    ControlTask(hits[i], SourceControlValue(r.mappings[hits[i]].source, value))]
    IN [r |-> send_all(r, "control_main_task_sender", tasks),
        matched |-> Len(hits) > 0]

\* A learn_source that sends the source twice.
learn_source_Twice(r, source) ==
    send_all(r, "normal_main_task_sender",
             <<LearnSourceTask(source), LearnSourceTask(source)>>)

\* RealTimeProcessor::learn_source
learn_source(r, source) ==
    send_all(r, "normal_main_task_sender", <<LearnSourceTask(source)>>)

\* RealTimeProcessor::feed_source_scanner
feed_source_scanner(r, value, e) ==
    LET res == SourceScannerFeed(r.source_scanner, value, e.guess)
        r1 == [r EXCEPT !.source_scanner = res.sc]
    IN IF Halted(r) THEN r
       ELSE IF res.out # NoSource THEN learn_source(r1, res.out) ELSE r1

\* RealTimeProcessor::poll_source_scanner
poll_source_scanner(r, e) ==
    LET res == SourceScannerPoll(r.source_scanner, e.guess)
        r1 == [r EXCEPT !.source_scanner = res.sc]
    IN IF Halted(r) THEN r
       ELSE IF res.out # NoSource THEN learn_source(r1, res.out) ELSE r1

\* RealTimeProcessor::process_incoming_midi_normal_nrpn
process_incoming_midi_normal_nrpn(r, value, e) ==
    IF r.control_state = "Controlling"
    THEN LET c == control(r, value, e.order)
         IN IF c.r.midi_control_input # "FxInput" THEN c.r
            ELSE IF \/ c.matched /\ c.r.let_matched_events_through
                    \/ ~c.matched /\ c.r.let_unmatched_events_through
                 THEN forward_all(c.r, "nrpn", to_short_messages(value))
                 ELSE c.r
    ELSE feed_source_scanner(r, value, e)

\* RealTimeProcessor::process_incoming_midi_normal_cc14
process_incoming_midi_normal_cc14(r, value, e) ==
    IF r.control_state = "Controlling"
    THEN LET c == control(r, value, e.order)
         IN IF c.r.midi_control_input # "FxInput" THEN c.r
            ELSE IF \/ c.matched /\ c.r.let_matched_events_through
                    \/ ~c.matched /\ c.r.let_unmatched_events_through
                 THEN forward_all(c.r, "cc14", to_short_messages(value))
                 ELSE c.r
    ELSE feed_source_scanner(r, value, e)

\* A plain path without the check of is_consumed.
process_incoming_midi_normal_plain_Unchecked(r, msg, e) ==
    IF r.control_state = "Controlling"
    THEN LET c == control(r, Plain(msg), e.order)
         IN IF c.matched THEN process_matched_short(c.r, msg)
            ELSE process_unmatched_short(c.r, msg)
    ELSE feed_source_scanner(r, Plain(msg), e)

\* RealTimeProcessor::process_incoming_midi_normal_plain
process_incoming_midi_normal_plain(r, msg, e) ==
    IF r.control_state = "Controlling"
    THEN IF is_consumed(r, msg) THEN r
         ELSE LET c == control(r, Plain(msg), e.order)
              IN IF c.matched THEN process_matched_short(c.r, msg)
                 ELSE process_unmatched_short(c.r, msg)
    ELSE feed_source_scanner(r, Plain(msg), e)

\* RealTimeProcessor::process_incoming_midi_normal
process_incoming_midi_normal(r, msg, e) ==
    LET n == NrpnFeed(r.nrpn_scanner, msg)
        r1 == [r EXCEPT !.nrpn_scanner = n.sc]
        r2 == IF n.out # NoValue THEN process_incoming_midi_normal_nrpn(r1, n.out, e) ELSE r1
        c == Cc14Feed(r2.cc_14_bit_scanner, msg)
        r3 == [r2 EXCEPT !.cc_14_bit_scanner = c.sc]
        r4 == IF c.out # NoValue THEN process_incoming_midi_normal_cc14(r3, c.out, e) ELSE r3
    IN IF Halted(r) THEN r
       ELSE IF Halted(r2) THEN r2
       ELSE IF Halted(r4) THEN r4
       ELSE process_incoming_midi_normal_plain(r4, msg, e)

\* RealTimeProcessor::process_incoming_midi
process_incoming_midi(r, msg, e) ==
    CASE msg.type \in NormalTypes -> process_incoming_midi_normal(r, msg, e)
      [] msg.type \in UnprocessedTypes -> process_unmatched_short(r, msg)
      [] msg.type = "TimingClock" -> IF e.bpm THEN control(r, Tempo, e.order).r ELSE r

\* RealTimeProcessor::process_incoming_midi_from_fx_input
transport_is_starting(r, e) == ~r.was_playing_in_last_cycle /\ e.playing

\* An FX input handler that matches the note-offs of a transport start.
process_incoming_midi_from_fx_input_NoStartCheck(r, msg, e) ==
    IF r.midi_control_input = "FxInput" THEN process_incoming_midi(r, msg, e) ELSE r

process_incoming_midi_from_fx_input(r, msg, e) ==
    IF r.midi_control_input = "FxInput"
    THEN IF transport_is_starting(r, e) /\ msg.type = "NoteOff"
         THEN process_unmatched_short(r, msg)
         ELSE process_incoming_midi(r, msg, e)
    ELSE r

\* idle: the events of the device's read buffer, one after the other.
RECURSIVE process_device_events(_, _, _)
process_device_events(r, events, e) ==
    IF events = <<>> \/ Halted(r) THEN r
    ELSE process_device_events(process_incoming_midi(r, Head(events), e), Tail(events), e)

\* A feedback that goes to the host whatever is configured.
feedback_ToHost(r, value) ==
    LET shorts == to_short_messages(value)
    IN IF shorts = <<>> THEN r ELSE forward_all(r, "feedback", shorts)

\* RealTimeProcessor::feedback
feedback(r, value) ==
    IF r.midi_feedback_output = "None" THEN r
    ELSE LET shorts == to_short_messages(value)
         IN IF shorts = <<>> THEN r
            ELSE IF r.midi_feedback_output = "FxOutput"
                 THEN forward_all(r, "feedback", shorts)
                 ELSE [r EXCEPT !.device_out = @ \o shorts]

\* -------------------------------------------------------------- normal tasks
\* UpdateAllMappings: mappings.into_iter().map(|m| (m.id(), m)).collect();
\* of two mappings with the same id the later one stays.
LastIndexOf(ms, id) ==
    CHOOSE i \in 1..Len(ms) : ms[i].id = id /\ \A j \in (i + 1)..Len(ms) : ms[j].id # id

CollectMappings(ms) ==
    [id \in {ms[i].id : i \in 1..Len(ms)} |-> ms[LastIndexOf(ms, id)]]

\* An insert that keeps the mapping the table already has for the id.
InsertMappingIfAbsent(table, m) ==
    [id \in DOMAIN table \cup {m.id} |-> IF id \in DOMAIN table THEN table[id] ELSE m]

\* HashMap::insert
InsertMapping(table, m) ==
    [id \in DOMAIN table \cup {m.id} |-> IF id = m.id THEN m ELSE table[id]]

\* A loop that skips the update of an id that is not in the table.
RECURSIVE ApplyActivationUpdatesSkipping(_, _)
ApplyActivationUpdatesSkipping(r, updates) ==
    IF updates = <<>> THEN r
    ELSE LET u == Head(updates)
         IN IF u.id \in DOMAIN r.mappings
            THEN ApplyActivationUpdatesSkipping(
                    [r EXCEPT !.mappings[u.id] = update_mapping_activation(@, u.is_active)],
                    Tail(updates))
            ELSE ApplyActivationUpdatesSkipping(r, Tail(updates))

\* UpdateMappingActivations: the updates one after the other; the first one
\* whose id is not in the table panics.
RECURSIVE ApplyActivationUpdates(_, _)
ApplyActivationUpdates(r, updates) ==
    IF updates = <<>> THEN r
    ELSE LET u == Head(updates)
         IN IF u.id \in DOMAIN r.mappings
            THEN ApplyActivationUpdates(
                    [r EXCEPT !.mappings[u.id] = update_mapping_activation(@, u.is_active)],
                    Tail(updates))
            ELSE [r EXCEPT !.panicked = TRUE]

\* A StartLearnSource that leaves the source scanner as it is.
ApplyStartLearnSourceKeepingScanner(r) ==
    [r EXCEPT !.control_state = "LearningSource",
              !.nrpn_scanner = NrpnScannerInit,
              !.cc_14_bit_scanner = Cc14ScannerInit]

\* A StopLearnSource that leaves the control state as it is.
ApplyStopLearnSourceKeepingState(r) ==
    [r EXCEPT !.nrpn_scanner = NrpnScannerInit,
              !.cc_14_bit_scanner = Cc14ScannerInit]

\* The learn transitions of idle.
ApplyStartLearnSource(r) ==
    [r EXCEPT !.control_state = "LearningSource",
              !.nrpn_scanner = NrpnScannerInit,
              !.cc_14_bit_scanner = Cc14ScannerInit,
              !.source_scanner = SourceScannerInit]

ApplyStopLearnSource(r) ==
    [r EXCEPT !.control_state = "Controlling",
              !.nrpn_scanner = NrpnScannerInit,
              !.cc_14_bit_scanner = Cc14ScannerInit]

\* An EnableMappingsExclusively that only switches on, never off.
ApplyEnableMappingsExclusivelyAdditive(r, ids) ==
    [r EXCEPT !.mappings =
        [id \in DOMAIN @ |-> IF id \in ids THEN update_target_activation(@[id], TRUE)
                                            ELSE @[id]]]

\* EnableMappingsExclusively: for m in self.mappings.values_mut()
ApplyEnableMappingsExclusively(r, ids) ==
    [r EXCEPT !.mappings =
        [id \in DOMAIN @ |-> update_target_activation(@[id], id \in ids)]]

\* idle: the match over one normal task.
ApplyNormalTask(r0, task) ==
    LET r == [r0 EXCEPT !.dropped_in_place = {}]
    IN
    CASE task.type = "UpdateAllMappings" ->
            \* the assignment drops the HashMap self.mappings held
            [r EXCEPT !.mappings = CollectMappings(task.mappings),
                      !.dropped_in_place = DOMAIN r.mappings]
      [] task.type = "UpdateSingleMapping" ->
            \* the mapping insert returns is dropped at the end of the statement
            [r EXCEPT !.mappings = InsertMapping(@, task.mappings[1]),
                      !.dropped_in_place = {task.mappings[1].id} \cap DOMAIN r.mappings]
      [] task.type = "EnableMappingsExclusively" ->
            ApplyEnableMappingsExclusively(r, task.ids)
      [] task.type = "UpdateSettings" ->
            [r EXCEPT !.let_matched_events_through = task.settings.let_matched_events_through,
                      !.let_unmatched_events_through = task.settings.let_unmatched_events_through,
                      !.midi_control_input = task.settings.midi_control_input,
                      !.midi_feedback_output = task.settings.midi_feedback_output]
      [] task.type = "UpdateSampleRate" -> r
      [] task.type = "StartLearnSource" -> ApplyStartLearnSource(r)
      [] task.type = "StopLearnSource" -> ApplyStopLearnSource(r)
      [] task.type = "LogDebugInfo" -> r
      [] task.type = "UpdateMappingActivations" -> ApplyActivationUpdates(r, task.updates)

\* ---------------------------------------------------------- control surface
\* RealearnControlSurfaceMiddleware and GarbageBin (control_surface.rs).

CONTROL_SURFACE_MAIN_TASK_BULK_SIZE == 10
CONTROL_SURFACE_SERVER_TASK_BULK_SIZE == 10
ADDITIONAL_FEEDBACK_EVENT_BULK_SIZE == 30
INSTANCE_ORCHESTRATION_EVENT_BULK_SIZE == 30
OSC_INCOMING_BULK_SIZE == 32
GARBAGE_BULK_SIZE == 100

\* The garbage channel has room for GarbageExtra items more than one run of
\* the middleware destroys.
GarbageExtra == 3
GarbageCapacity == GARBAGE_BULK_SIZE + GarbageExtra
\* The callers of the garbage bin dispose at most MaxDisposed items.
MaxDisposed == 2 * GarbageCapacity + 4
\* At most MaxMainTasks main tasks wait in their channel, at most
\* MaxMainProcessors main processors are added.
MaxMainTasks == 2
MaxMainProcessors == 1
\* A burst fills a queue of the middleware with BulkExtra items more than one
\* run takes from it.
BulkExtra == 2
\* The configuration of the OSC device manager holds at most MaxOscDevices
\* devices.
MaxOscDevices == 2
\* SpecOsc: at most MaxOscProcessors main processors; a device with many
\* packets has OscExtra packets more than one poll takes.
MaxOscProcessors == 2
OscExtra == 2

Min(a, b) == IF a < b THEN a ELSE b

Take(seq, n) == SubSeq(seq, 1, Min(n, Len(seq)))
Skip(seq, n) == SubSeq(seq, Min(n, Len(seq)) + 1, Len(seq))

\* A crossbeam channel of Garbage: the items it holds, oldest first.  An item
\* is named by the number of the dispose call that passed it in.
NewGarbageChannel(bounded) ==
    [created |-> TRUE, bounded |-> bounded, items |-> <<>>, disconnected |-> FALSE]

NoGarbageChannel == [NewGarbageChannel(TRUE) EXCEPT !.created = FALSE]

\* Sender::capacity
capacity(channel) == IF channel.bounded THEN GarbageCapacity ELSE -1

\* Sender::try_send: never waits, an error when the receiver is gone or the
\* bounded channel is full.
try_send(channel, item) ==
    IF channel.disconnected THEN [error |-> "Disconnected", channel |-> channel]
    ELSE IF channel.bounded /\ Len(channel.items) >= capacity(channel)
         THEN [error |-> "Full", channel |-> channel]
         ELSE [error |-> "None",
               channel |-> [channel EXCEPT !.items = Append(@, item)]]

\* A GarbageBin and its callers: calls counts the dispose calls made, panic
\* tells why a caller panicked in new or dispose.
NoGarbageBin == [constructed |-> FALSE, panic |-> "None", calls |-> 0]

GarbageBinNew(bin, channel) ==
    IF channel.bounded THEN [bin EXCEPT !.constructed = TRUE]
    ELSE [bin EXCEPT !.panic = "NotBounded"]

\* g is a GarbageBin together with the channel its sender belongs to.
dispose(g, garbage) ==
    IF g.bin.panic # "None" THEN g
    ELSE LET sending == try_send(g.channel, garbage)
         IN IF sending.error = "None"
            THEN [bin |-> [g.bin EXCEPT !.calls = @ + 1], channel |-> sending.channel]
            ELSE [bin |-> [g.bin EXCEPT !.calls = @ + 1, !.panic = sending.error],
                  channel |-> g.channel]

\* The five heap-owning parts of the mapping are items first .. first + 4.
dispose_real_time_mapping(g, first) ==
    LET lifecycle_midi_data == dispose(g, first)
        resolved_target == dispose(lifecycle_midi_data, first + 1)
        control_transformation == dispose(resolved_target, first + 2)
        feedback_transformation == dispose(control_transformation, first + 3)
    IN dispose(feedback_transformation, first + 4)

\* run_internal, garbage drop: what is left in the channel.
GarbageDropAll(items) == <<>>

GarbageDrop(items) == Skip(items, GARBAGE_BULK_SIZE)

\* Drop for RealearnControlSurfaceMiddleware: the loop destroys every item, then
\* the receiver goes with the other fields.
DropMiddlewareChannel(channel) ==
    [channel EXCEPT !.items = <<>>, !.disconnected = TRUE]

States == {"Normal", "LearningSource", "LearningTarget"}

\* A MainProcessor as the middleware sees it: its instance id and the OSC
\* device it receives from (receives_osc_from).
MainProcessor(id, dev) == [instance_id |-> id, osc_device |-> dev]

NoMainProcessor == MainProcessor(0, 0)

receives_osc_from(p, dev_id) == p.osc_device = dev_id

\* RealearnControlSurfaceMainTask; n is the number of the task in its channel.
MainTask(type, p, n) == [type |-> type, processor |-> p, n |-> n]

MainTaskTypes ==
    {"AddMainProcessor", "LogDebugInfo", "StartLearningTargets",
     "StartLearningSources", "StopLearning", "SendAllFeedback"}

\* AdditionalFeedbackEvent
AdditionalFeedbackEventTypes ==
    {"ActionInvoked", "FxSnapshotLoaded", "RealearnMonitoringFxParameterValueChanged",
     "ParameterAutomationTouchStateChanged", "BeatChanged"}

AdditionalFeedbackEvent(type, n) == [type |-> type, n |-> n]

\* InstanceOrchestrationEvent::SourceReleased of instance id: has_source,
\* RealSource::from_feedback_value finds a source; accepting, the instances
\* whose maybe_takeover_source returns true.
SourceReleased(id, has_source, accepting, n) ==
    [type |-> "SourceReleased", instance_id |-> id, n |-> n,
     has_source |-> has_source, accepting |-> accepting,
     usage_changed |-> FALSE, upper_floor |-> FALSE, has_output |-> FALSE]

\* InstanceOrchestrationEvent::IoUpdated of instance id: usage_changed, what
\* update_io_usage returns; upper_floor, what lives_on_upper_floor returns;
\* has_output, the event has a feedback output.
IoUpdated(id, usage_changed, upper_floor, has_output, n) ==
    [type |-> "IoUpdated", instance_id |-> id, n |-> n,
     has_source |-> FALSE, accepting |-> {},
     usage_changed |-> usage_changed, upper_floor |-> upper_floor,
     has_output |-> has_output]

\* rosc::OscPacket: a message or a bundle of packets.
OscMessage(n) == [bundle |-> FALSE, n |-> n, content |-> <<>>]
OscBundle(n, content) == [bundle |-> TRUE, n |-> n, content |-> content]

\* An effect of a call of run or handle_event: the method called, on the main
\* processor of instance `to` (0: on the middleware's own parts; for an offer
\* to the learn sender, the OSC device id), for the item numbered arg.
Did(call, to, arg) == [call |-> call, to |-> to, arg |-> arg]

\* call: the last call made on the middleware or on the sender of its main
\* tasks; changes: the change events of that call, if it was handle_event;
\* effects: what the last call of run or handle_event did, in order.
NewRealearnControlSurfaceMiddleware(metrics_enabled) ==
    [lifecycle |-> "Alive",
     call |-> "new",
     main_processors |-> <<>>,
     main_task_receiver |-> <<>>,
     server_task_receiver |-> <<>>,
     additional_feedback_event_receiver |-> <<>>,
     instance_orchestration_event_receiver |-> <<>>,
     counter |-> 0,
     metrics_enabled |-> metrics_enabled,
     state |-> "Normal",
     osc_input_devices |-> <<>>,
     changes |-> <<>>,
     try_send_fails |-> FALSE,
     effects |-> <<>>]

NoMiddleware == [NewRealearnControlSurfaceMiddleware(FALSE) EXCEPT !.lifecycle = "Unborn"]

\* remove_main_processor
remove_main_processor(s, id) ==
    [s EXCEPT !.main_processors = SelectSeq(@, LAMBDA p : p.instance_id # id)]

\* set_osc_input_devices / clear_osc_input_devices
set_osc_input_devices(s, devs) == [s EXCEPT !.osc_input_devices = devs]

clear_osc_input_devices(s) == [s EXCEPT !.osc_input_devices = <<>>]

\* F(v), with v worked out once before F uses it.
Bind(v, F(_)) == CHOOSE result \in {F(x) : x \in {v}} : TRUE

\* for p in &self.main_processors { p.method(arg) }
ForEachMainProcessor(s, method, arg) ==
    [s EXCEPT !.effects =
        @ \o [i \in 1..Len(s.main_processors) |->
                Did(method, s.main_processors[i].instance_id, arg)]]

Effect(s, effect, to, arg) == [s EXCEPT !.effects = Append(@, Did(effect, to, arg))]

ProcessMainTaskStoppingOnLog(s, t) ==
    CASE t.type = "AddMainProcessor" -> [s EXCEPT !.main_processors = Append(@, t.processor)]
      [] t.type = "LogDebugInfo" ->
            [Effect(s, "log_debug_info", 0, t.n) EXCEPT !.state = "Normal"]
      [] t.type = "StartLearningTargets" -> [s EXCEPT !.state = "LearningTarget"]
      [] t.type = "StopLearning" -> [s EXCEPT !.state = "Normal"]
      [] t.type = "StartLearningSources" -> [s EXCEPT !.state = "LearningSource"]
      [] t.type = "SendAllFeedback" -> ForEachMainProcessor(s, "send_all_feedback", t.n)

ProcessMainTask(s, t) ==
    CASE t.type = "AddMainProcessor" -> [s EXCEPT !.main_processors = Append(@, t.processor)]
      [] t.type = "LogDebugInfo" -> Effect(s, "log_debug_info", 0, t.n)
      [] t.type = "StartLearningTargets" -> [s EXCEPT !.state = "LearningTarget"]
      [] t.type = "StopLearning" -> [s EXCEPT !.state = "Normal"]
      [] t.type = "StartLearningSources" -> [s EXCEPT !.state = "LearningSource"]
      [] t.type = "SendAllFeedback" -> ForEachMainProcessor(s, "send_all_feedback", t.n)

\* RealearnControlSurfaceServerTask::ProvidePrometheusMetrics
ProcessServerTask(s, n) == Effect(s, "provide_prometheus_metrics", 0, n)

ProcessAdditionalFeedbackEvent(s, event) ==
    LET rx == IF event.type = "RealearnMonitoringFxParameterValueChanged"
              THEN Effect(Effect(s, "rx.fx_parameter_value_changed", 0, event.n),
                          "rx.fx_parameter_touched", 0, event.n)
              ELSE s
    IN ForEachMainProcessor(rx, "process_additional_feedback_event", event.n)

\* self.main_processors.iter().any(|p| p.maybe_takeover_source(&source)): the
\* processors asked, up to the first one that accepts.
\* Every processor is asked, also after one has accepted.
AskedForTakeoverAll(processors, accepting) == processors

RECURSIVE AskedForTakeover(_, _)
AskedForTakeover(processors, accepting) ==
    IF processors = <<>> THEN <<>>
    ELSE IF Head(processors).instance_id \in accepting THEN <<Head(processors)>>
         ELSE <<Head(processors)>> \o AskedForTakeover(Tail(processors), accepting)

\* self.main_processors.iter().find(|p| p.instance_id() == id)
FindMainProcessor(processors, id) ==
    LET found == SelectSeq(processors, LAMBDA p : p.instance_id = id)
    IN IF found = <<>> THEN <<>> ELSE <<Head(found)>>

ProcessSourceReleased(s, e) ==
    LET asked == IF e.has_source THEN AskedForTakeover(s.main_processors, e.accepting)
                 ELSE <<>>
        other_instance_took_over ==
            asked # <<>> /\ asked[Len(asked)].instance_id \in e.accepting
        offered == [s EXCEPT !.effects =
                        @ \o [i \in 1..Len(asked) |->
                                Did("maybe_takeover_source", asked[i].instance_id, e.n)]]
        releaser == FindMainProcessor(s.main_processors, e.instance_id)
    IN IF other_instance_took_over \/ releaser = <<>> THEN offered
       ELSE Effect(offered, "finally_switch_off_source", e.instance_id, e.n)

ProcessIoUpdated(s, e) ==
    LET updated == Effect(s, "update_io_usage", 0, e.n)
        others == SelectSeq(s.main_processors, LAMBDA p : p.instance_id # e.instance_id)
    IN IF e.usage_changed /\ e.upper_floor /\ e.has_output
       THEN [updated EXCEPT !.effects =
                @ \o [i \in 1..Len(others) |->
                        Did("handle_change_of_some_upper_floor_instance",
                            others[i].instance_id, e.n)]]
       ELSE updated

ProcessOrchestrationEvent(s, e) ==
    CASE e.type = "SourceReleased" -> ProcessSourceReleased(s, e)
      [] e.type = "IoUpdated" -> ProcessIoUpdated(s, e)

\* One item of the queue named by field.
ProcessItem(s, field, item) ==
    CASE field = "main_task_receiver" -> ProcessMainTask(s, item)
      [] field = "server_task_receiver" -> ProcessServerTask(s, item)
      [] field = "additional_feedback_event_receiver" ->
            ProcessAdditionalFeedbackEvent(s, item)
      [] field = "instance_orchestration_event_receiver" ->
            ProcessOrchestrationEvent(s, item)

RECURSIVE ProcessItems(_, _, _)
ProcessItems(s, field, items) ==
    IF items = <<>> THEN s
    ELSE Bind(ProcessItem(s, field, Head(items)),
              LAMBDA done : ProcessItems(done, field, Tail(items)))

\* A loop that takes every item of the queue.
DrainAll(s, field, bulk_size) ==
    ProcessItems([s EXCEPT ![field] = <<>>], field, s[field])

\* for item in self.<field>.try_iter().take(bulk_size) { .. }
Drain(s, field, bulk_size) ==
    ProcessItems([s EXCEPT ![field] = Skip(@, bulk_size)], field, Take(s[field], bulk_size))

\* What one call of run finds: the projects whose beat has changed, and for
\* each OSC input device the packets waiting at its socket.
RunEnv(beats, packets) == [beats |-> beats, packets |-> packets]

QuietRunEnv == RunEnv(0, <<>>)

\* Emit beats as feedback events
RECURSIVE EmitBeats(_, _)
EmitBeats(s, beats) ==
    IF beats = 0 THEN s
    ELSE Bind(ForEachMainProcessor(s, "process_additional_feedback_event", 0),
              LAMBDA done : EmitBeats(done, beats - 1))

\* process_incoming_osc_packet_for_learning: the messages of the packet, the
\* ones of a bundle in the order of its content.
RECURSIVE process_incoming_osc_packet_for_learning(_, _, _)
RECURSIVE LearnPackets(_, _, _)
LearnPackets(s, dev_id, packets) ==
    IF packets = <<>> THEN s
    ELSE Bind(process_incoming_osc_packet_for_learning(s, dev_id, Head(packets)),
              LAMBDA done : LearnPackets(done, dev_id, Tail(packets)))

process_incoming_osc_packet_for_learning(s, dev_id, packet) ==
    IF packet.bundle THEN LearnPackets(s, dev_id, packet.content)
    ELSE Effect(s, "learn_source_sender.try_send", dev_id, packet.n)

RECURSIVE DeliverPacketsToAll(_, _, _, _)
DeliverPacketsToAll(s, processors, dev_id, packets) ==
    IF processors = <<>> THEN s
    ELSE LET p == Head(processors)
             delivered ==
                 [s EXCEPT !.effects =
                     @ \o [i \in 1..Len(packets) |->
                             Did("process_incoming_osc_packet", p.instance_id,
                                 packets[i].n)]]
         IN Bind(delivered,
                 LAMBDA done : DeliverPacketsToAll(done, Tail(processors), dev_id, packets))

\* The Normal arm for one device: every receiving processor gets the packets.
RECURSIVE DeliverPackets(_, _, _, _)
DeliverPackets(s, processors, dev_id, packets) ==
    IF processors = <<>> THEN s
    ELSE LET p == Head(processors)
             delivered ==
                 IF receives_osc_from(p, dev_id)
                 THEN [s EXCEPT !.effects =
                          @ \o [i \in 1..Len(packets) |->
                                  Did("process_incoming_osc_packet", p.instance_id,
                                      packets[i].n)]]
                 ELSE s
         IN Bind(delivered, LAMBDA done : DeliverPackets(done, Tail(processors), dev_id, packets))

\* OscInputDevice::poll_multiple(n): at most n of the waiting packets.
poll_multiple(waiting, n) == Take(waiting, n)

RECURSIVE ProcessPacketsByDevice(_, _, _)
ProcessPacketsByDevice(s, devs, packets_by_device) ==
    IF devs = <<>> THEN s
    ELSE LET dev_id == Head(devs)
             packets == Head(packets_by_device)
             done == CASE s.state = "Normal" ->
                            DeliverPackets(s, s.main_processors, dev_id, packets)
                       [] s.state = "LearningSource" -> LearnPackets(s, dev_id, packets)
                       [] s.state = "LearningTarget" -> s
         IN Bind(done, LAMBDA next :
                    ProcessPacketsByDevice(next, Tail(devs), Tail(packets_by_device)))

process_incoming_osc_messages(s, e) ==
    LET packets_by_device ==
            [i \in 1..Len(s.osc_input_devices) |->
                poll_multiple(IF i \in DOMAIN e.packets THEN e.packets[i] ELSE <<>>,
                              OSC_INCOMING_BULK_SIZE)]
    IN ProcessPacketsByDevice(s, s.osc_input_devices, packets_by_device)

RunMainProcessors(s) ==
    CASE s.state = "Normal" -> ForEachMainProcessor(s, "run_all", 0)
      [] s.state \in {"LearningSource", "LearningTarget"} ->
            ForEachMainProcessor(s, "run_essential", 0)

Metrics(s) ==
    IF ~s.metrics_enabled THEN s
    ELSE IF s.counter = 30 * 10 THEN [s EXCEPT !.counter = 0]
         ELSE [s EXCEPT !.counter = @ + 1]

\* run_internal without the garbage drop at its end.
run_internal(s, e) ==
    Bind([s EXCEPT !.call = "run", !.changes = <<>>, !.try_send_fails = FALSE, !.effects = <<>>], LAMBDA begun :
    Bind(Drain(begun, "main_task_receiver", CONTROL_SURFACE_MAIN_TASK_BULK_SIZE),
         LAMBDA main_tasks :
    Bind(Drain(main_tasks, "server_task_receiver", CONTROL_SURFACE_SERVER_TASK_BULK_SIZE),
         LAMBDA server_tasks :
    Bind(Drain(server_tasks, "additional_feedback_event_receiver",
               ADDITIONAL_FEEDBACK_EVENT_BULK_SIZE),
         LAMBDA additional_feedback :
    Bind(Drain(additional_feedback, "instance_orchestration_event_receiver",
               INSTANCE_ORCHESTRATION_EVENT_BULK_SIZE),
         LAMBDA orchestration :
    Bind(EmitBeats(orchestration, e.beats), LAMBDA beats :
    Bind(process_incoming_osc_messages(beats, e), LAMBDA osc :
    Bind(RunMainProcessors(osc), LAMBDA run : Metrics(run)))))))))

\* reaper_high::ChangeEvent: touched, the tag of a change the user made;
\* master_track, the track of the event is the master track; pan_complete, the
\* new pan value is AvailablePanValue::Complete.
ChangeEvent(type, touched, master_track, pan_complete) ==
    [type |-> type, touched |-> touched, master_track |-> master_track,
     pan_complete |-> pan_complete]

TouchedIfTagged ==
    {"TrackVolumeChanged", "TrackSendVolumeChanged", "TrackSendPanChanged",
     "TrackMuteChanged", "FxParameterValueChanged", "MasterTempoChanged",
     "MasterPlayrateChanged"}

TouchedAlways ==
    {"TrackArmChanged", "TrackSelectedChanged", "FxEnabledChanged", "FxPresetChanged"}

\* ReaperTarget::touched_from_change_event returns Some(target).
touched_from_change_event(evt) ==
    CASE evt.type \in TouchedIfTagged -> evt.touched
      [] evt.type = "TrackPanChanged" -> evt.touched /\ evt.pan_complete
      [] evt.type \in TouchedAlways -> TRUE
      [] evt.type = "TrackSoloChanged" -> ~evt.master_track
      [] OTHER -> FALSE

\* The closure handle_event_internal passes to the change detection, for one
\* change event; n numbers the change events of the call.
HandleChangeRxFirst(s, evt, n) ==
    CASE s.state = "Normal" ->
            LET fed == ForEachMainProcessor(Effect(s, "rx_middleware.handle_change", 0, n),
                                            "process_control_surface_change_event", n)
            IN IF touched_from_change_event(evt)
               THEN ForEachMainProcessor(Effect(fed, "set_last_touched_target", 0, n),
                                         "notify_target_touched", n)
               ELSE fed
      [] s.state = "LearningTarget" ->
            \* let _ = sender.try_send(target): s.try_send_fails, the result, is dropped
            IF touched_from_change_event(evt)
            THEN Effect(s, "learn_target_sender.try_send", 0, n)
            ELSE s
      [] s.state = "LearningSource" -> s

HandleChange(s, evt, n) ==
    CASE s.state = "Normal" ->
            LET fed == Effect(ForEachMainProcessor(s, "process_control_surface_change_event", n),
                              "rx_middleware.handle_change", 0, n)
            IN IF touched_from_change_event(evt)
               THEN ForEachMainProcessor(Effect(fed, "set_last_touched_target", 0, n),
                                         "notify_target_touched", n)
               ELSE fed
      [] s.state = "LearningTarget" ->
            \* let _ = sender.try_send(target): s.try_send_fails, the result, is dropped
            IF touched_from_change_event(evt)
            THEN Effect(s, "learn_target_sender.try_send", 0, n)
            ELSE s
      [] s.state = "LearningSource" -> s

RECURSIVE HandleChangesUntilFailure(_, _, _)
HandleChangesUntilFailure(s, changes, n) ==
    IF changes = <<>> THEN s
    ELSE IF s.try_send_fails /\ s.effects[Len(s.effects)].call = "learn_target_sender.try_send"
         THEN s
         ELSE Bind(HandleChange(s, Head(changes), n),
                   LAMBDA done : HandleChangesUntilFailure(done, Tail(changes), n + 1))

RECURSIVE HandleChanges(_, _, _)
HandleChanges(s, changes, n) ==
    IF changes = <<>> THEN s
    ELSE Bind(HandleChange(s, Head(changes), n),
              LAMBDA done : HandleChanges(done, Tail(changes), n + 1))

\* handle_event_internal: the event goes to the change detection, which calls
\* the closure for each of the change events it detects.
\* try_send_fails: the channel of learned targets is full or has lost its
\* receiver.
handle_event_internal(s, changes, try_send_fails) ==
    LET begun == [s EXCEPT !.call = "handle_event", !.changes = changes,
                           !.try_send_fails = try_send_fails, !.effects = <<>>]
        processing == Effect(begun, "change_detection_middleware.process", 0, 0)
    IN HandleChanges(processing, changes, 1)

\* ------------------------------------------------------- OSC device manager
\* OscDevice: its id and its name stand for all its fields.
OscDevice(id, name) == [id |-> id, name |-> name]

\* OscDeviceManager::new, the config file missing: a default configuration.
\* file is what the config file holds, result and notified tell how the last
\* call ended and whether changed_subject was notified in it.
OscDeviceManagerNew ==
    [devices |-> <<>>, file |-> <<>>, call |-> "new", result |-> "Ok", notified |-> FALSE]

\* save: the configuration is written to the file, or an error.
save(m, save_ok) ==
    IF save_ok THEN [m EXCEPT !.file = m.devices, !.result = "Ok"]
    ELSE [m EXCEPT !.result = "couldn't write OSC device config file"]

save_and_notify_changed(m, save_ok) ==
    LET saved == save(m, save_ok)
    IN IF saved.result # "Ok"
       THEN [saved EXCEPT !.result = "error when saving OSC device configuration"]
       ELSE [saved EXCEPT !.notified = TRUE]

add_device(m, dev, save_ok) ==
    LET pushed == [m EXCEPT !.call = "add_device", !.notified = FALSE,
                            !.devices = Append(@, dev)]
    IN save_and_notify_changed(pushed, save_ok)

update_device(m, dev, save_ok) ==
    LET begun == [m EXCEPT !.call = "update_device", !.notified = FALSE]
        found == {i \in 1..Len(m.devices) : m.devices[i].id = dev.id}
    IN IF found = {}
       THEN [begun EXCEPT !.result = "couldn't find OSC device"]
       ELSE LET first == CHOOSE i \in found : \A j \in found : i <= j
            IN save_and_notify_changed([begun EXCEPT !.devices[first] = dev], save_ok)

remove_device_by_id(m, dev_id, save_ok) ==
    LET retained == [m EXCEPT !.call = "remove_device_by_id", !.notified = FALSE,
                              !.devices = SelectSeq(@, LAMBDA dev : dev.id # dev_id)]
    IN save_and_notify_changed(retained, save_ok)

\* ------------------------------------------------------------------ presets
\* No function has been called yet.
NoCall == [fn |-> "none"]

\* ReaperTargetType: the types that differ in supports_track and supports_fx.
ReaperTargetTypes == {"FxParameter", "TrackVolume", "Tempo"}

supports_track(type) == type \in {"FxParameter", "TrackVolume"}

\* TargetModel::supports_fx
supports_fx(target) == target.category = "Reaper" /\ target.type = "FxParameter"

\* VirtualTrackType::refers_to_project, VirtualFxType::refers_to_project
track_refers_to_project(track_type) == track_type \in {"ById", "ByIdOrName"}

fx_refers_to_project(fx_type) == fx_type \in {"ById", "ByIdOrIndex"}

\* The target model of a mapping.
TargetModel(category, type, track_type, fx_type) ==
    [category |-> category, type |-> type, track_type |-> track_type, fx_type |-> fx_type]

\* The context a target is resolved in: is its FX the one that contains the
\* plug-in; first_effective_track: "Err", no track found; "NoIndex", a track
\* without index (the master track); "Index", a track with an index.
ProcessorContext(fx_is_containing_fx, first_effective_track) ==
    [fx_is_containing_fx |-> fx_is_containing_fx,
     first_effective_track |-> first_effective_track]

mapping_has_project_references(target) ==
    CASE target.category = "Reaper" ->
            IF supports_track(target.type) /\ track_refers_to_project(target.track_type)
            THEN TRUE
            ELSE supports_fx(target) /\ fx_refers_to_project(target.fx_type)
      [] target.category = "Virtual" -> FALSE

mappings_have_project_references(mappings) ==
    \E i \in 1..Len(mappings) : mapping_has_project_references(mappings[i])

make_mapping_project_independent(target, context) ==
    CASE target.category = "Reaper" ->
            LET changed_to_track_ignore_fx ==
                    supports_fx(target) /\ fx_refers_to_project(target.fx_type)
                with_fx ==
                    IF changed_to_track_ignore_fx
                    THEN [target EXCEPT !.fx_type = IF context.fx_is_containing_fx
                                                    THEN "This" ELSE "Focused"]
                    ELSE target
            IN IF supports_track(with_fx.type) /\ track_refers_to_project(with_fx.track_type)
               THEN IF changed_to_track_ignore_fx
                    THEN [with_fx EXCEPT !.track_type = "This"]
                    ELSE IF context.first_effective_track = "Index"
                         THEN [with_fx EXCEPT !.track_type = "ByIndex"]
                         ELSE with_fx
               ELSE with_fx
      [] target.category = "Virtual" -> target

make_mappings_project_independent(mappings, context) ==
    [i \in 1..Len(mappings) |-> make_mapping_project_independent(mappings[i], context)]

\* ---------------------------------------------------------- mode model data
\* A unit value is written in hundredths: 0 is 0.0 and 100 is 1.0.
UnitValueOne == 100

\* UnitValue::inverse
unit_value_inverse(v) == UnitValueOne - v

\* Interval::new and Interval::inverse
Interval(min_val, max_val) == [min_val |-> min_val, max_val |-> max_val]

interval_inverse(interval) ==
    Interval(unit_value_inverse(interval.max_val), unit_value_inverse(interval.min_val))

\* std::time::Duration. as_millis() is a u128: wraps * 2^64 + millis, with
\* millis < 2^64; nanos is what is left below one millisecond.
Duration(wraps, millis, nanos) == [wraps |-> wraps, millis |-> millis, nanos |-> nanos]

\* `duration.as_millis() as _` for a u64 field: the cast keeps the low 64 bits.
as_millis_u64(duration) == duration.millis

\* Duration::from_millis(u64)
from_millis(millis) == Duration(0, millis, 0)

\* MigrationDescriptor
MigrationDescriptor(target_interval_transformation_117) ==
    [target_interval_transformation_117 |-> target_interval_transformation_117]

\* MigrationDescriptor::default()
MigrationDescriptorDefault == MigrationDescriptor(FALSE)

from_model_NoReverse(model) ==
    [type |-> model.type,
     min_source_value |-> model.source_value_interval.min_val,
     max_source_value |-> model.source_value_interval.max_val,
     min_target_value |-> model.target_value_interval.min_val,
     max_target_value |-> model.target_value_interval.max_val,
     min_target_jump |-> model.jump_interval.min_val,
     max_target_jump |-> model.jump_interval.max_val,
     min_step_size |-> model.step_interval.min_val,
     max_step_size |-> model.step_interval.max_val,
     min_press_millis |-> as_millis_u64(model.press_duration_interval.min_val),
     max_press_millis |-> as_millis_u64(model.press_duration_interval.max_val),
     turbo_rate |-> as_millis_u64(model.turbo_rate),
     eel_control_transformation |-> model.eel_control_transformation,
     eel_feedback_transformation |-> model.eel_feedback_transformation,
     reverse_is_enabled |-> FALSE,
     ignore_out_of_range_source_values_is_enabled |-> FALSE,
     out_of_range_behavior |-> model.out_of_range_behavior,
     fire_mode |-> model.fire_mode,
     round_target_value |-> model.round_target_value,
     scale_mode_enabled |-> FALSE,
     takeover_mode |-> model.takeover_mode,
     button_usage |-> model.button_usage,
     encoder_usage |-> model.encoder_usage,
     rotate_is_enabled |-> model.rotate,
     make_absolute_enabled |-> model.make_absolute]

\* ModeModelData::from_model
from_model(model) ==
    [type |-> model.type,
     min_source_value |-> model.source_value_interval.min_val,
     max_source_value |-> model.source_value_interval.max_val,
     min_target_value |-> model.target_value_interval.min_val,
     max_target_value |-> model.target_value_interval.max_val,
     min_target_jump |-> model.jump_interval.min_val,
     max_target_jump |-> model.jump_interval.max_val,
     min_step_size |-> model.step_interval.min_val,
     max_step_size |-> model.step_interval.max_val,
     min_press_millis |-> as_millis_u64(model.press_duration_interval.min_val),
     max_press_millis |-> as_millis_u64(model.press_duration_interval.max_val),
     turbo_rate |-> as_millis_u64(model.turbo_rate),
     eel_control_transformation |-> model.eel_control_transformation,
     eel_feedback_transformation |-> model.eel_feedback_transformation,
     reverse_is_enabled |-> model.reverse,
     ignore_out_of_range_source_values_is_enabled |-> FALSE,
     out_of_range_behavior |-> model.out_of_range_behavior,
     fire_mode |-> model.fire_mode,
     round_target_value |-> model.round_target_value,
     scale_mode_enabled |-> FALSE,
     takeover_mode |-> model.takeover_mode,
     button_usage |-> model.button_usage,
     encoder_usage |-> model.encoder_usage,
     rotate_is_enabled |-> model.rotate,
     make_absolute_enabled |-> model.make_absolute]

actual_target_interval_AnyType(data, migration_descriptor) ==
    LET saved_target_interval == Interval(data.min_target_value, data.max_target_value)
    IN IF migration_descriptor.target_interval_transformation_117 /\ data.reverse_is_enabled
       THEN interval_inverse(saved_target_interval)
       ELSE saved_target_interval

\* The target interval apply_to_model_flexible sets.
actual_target_interval(data, migration_descriptor) ==
    LET saved_target_interval == Interval(data.min_target_value, data.max_target_value)
    IN IF /\ migration_descriptor.target_interval_transformation_117
          /\ data.reverse_is_enabled
          /\ data.type = "Normal"
       THEN interval_inverse(saved_target_interval)
       ELSE saved_target_interval

actual_out_of_range_behavior_Stored(data) == data.out_of_range_behavior

\* The out-of-range behaviour apply_to_model_flexible sets.
actual_out_of_range_behavior(data) ==
    IF data.ignore_out_of_range_source_values_is_enabled
    THEN "Ignore"
    ELSE data.out_of_range_behavior

\* The takeover mode apply_to_model_flexible sets.
takeover_mode(data) ==
    IF data.scale_mode_enabled THEN "LongTimeNoSee" ELSE data.takeover_mode

\* ModeModelData::apply_to_model_flexible: every property of the model is set,
\* so the result does not depend on the model the data is applied to.
\* mapping_name is logged only and with_notification decides only whether the
\* listeners of the properties are told.
apply_to_model_flexible(data, model, migration_descriptor) ==
    [model EXCEPT
        !.type = data.type,
        !.source_value_interval = Interval(data.min_source_value, data.max_source_value),
        !.target_value_interval = actual_target_interval(data, migration_descriptor),
        !.step_interval = Interval(data.min_step_size, data.max_step_size),
        !.press_duration_interval =
            Interval(from_millis(data.min_press_millis), from_millis(data.max_press_millis)),
        !.turbo_rate = from_millis(data.turbo_rate),
        !.jump_interval = Interval(data.min_target_jump, data.max_target_jump),
        !.eel_control_transformation = data.eel_control_transformation,
        !.eel_feedback_transformation = data.eel_feedback_transformation,
        !.reverse = data.reverse_is_enabled,
        !.fire_mode = data.fire_mode,
        !.out_of_range_behavior = actual_out_of_range_behavior(data),
        !.round_target_value = data.round_target_value,
        !.takeover_mode = takeover_mode(data),
        !.button_usage = data.button_usage,
        !.encoder_usage = data.encoder_usage,
        !.rotate = data.rotate_is_enabled,
        !.make_absolute = data.make_absolute_enabled]

\* ModeModelData::apply_to_model
apply_to_model(data, model) ==
    apply_to_model_flexible(data, model, MigrationDescriptorDefault)

\* ModeModel::default(), as far as its properties are saved.
ModeModelDefault ==
    [type |-> "Normal",
     source_value_interval |-> Interval(0, UnitValueOne),
     target_value_interval |-> Interval(0, UnitValueOne),
     jump_interval |-> Interval(0, UnitValueOne),
     step_interval |-> Interval(1, 1),
     press_duration_interval |-> Interval(from_millis(0), from_millis(0)),
     turbo_rate |-> from_millis(0),
     eel_control_transformation |-> "",
     eel_feedback_transformation |-> "",
     reverse |-> FALSE,
     out_of_range_behavior |-> "MinOrMax",
     fire_mode |-> "WhenButtonReleased",
     round_target_value |-> FALSE,
     takeover_mode |-> "Pickup",
     button_usage |-> "Both",
     encoder_usage |-> "Both",
     rotate |-> FALSE,
     make_absolute |-> FALSE]

\* ------------------------------------------------------------ REAPER target
\* A unit value as the fraction num / den, so that the steps 1 / count are exact.
Fraction(num, den) == [num |-> num, den |-> den]

\* UnitValue::MIN
UnitValueMin == Fraction(0, 1)

\* UnitValue::is_zero
is_zero(value) == value.num = 0

\* Option
None == [some |-> FALSE]

Some(value) == [some |-> TRUE, value |-> value]

\* f64::round of the fraction num / den that is not negative: the nearest
\* integer, half away from zero.
round(num, den) == (2 * num + den) \div (2 * den)

convert_unit_to_discrete_value_with_none_NoStep(value, count) ==
    IF is_zero(value)
    THEN None
    ELSE IF count = 0
         THEN Some(0)
         ELSE Some(round(value.num * count, value.den))

\* convert_unit_to_discrete_value_with_none. With count = 0 the step size
\* 1.0 / 0.0 is infinite, (value - step_size).max(0.0) is 0.0 and the index 0.
convert_unit_to_discrete_value_with_none(value, count) ==
    IF is_zero(value)
    THEN None
    ELSE IF count = 0
         THEN Some(0)
         ELSE LET zero_based_num == IF value.num * count - value.den > 0
                                    THEN value.num * count - value.den
                                    ELSE 0
              \* zero_based_value is zero_based_num / (value.den * count)
              IN Some(round(zero_based_num, value.den))

\* convert_discrete_to_unit_value_with_none
convert_discrete_to_unit_value_with_none(value, count) ==
    IF ~value.some
    THEN UnitValueMin
    ELSE IF count = 0
         THEN UnitValueMin
         ELSE Fraction(Min(value.value + 1, count), count)

\* ControlValue
Absolute(v) == [kind |-> "Absolute", value |-> v]

Relative(i) == [kind |-> "Relative", value |-> i]

\* What control returns, with the calls it made on the host in their order.
\* "Panic" is the unwrap of a refused parameter value.
Ok(host) == [result |-> "Ok", error |-> "", host |-> host]

Err(error) == [result |-> "Err", error |-> error, host |-> <<>>]

Panic(host) == [result |-> "Panic", error |-> "", host |-> host]

\* A call on the host.
HostCall(call, arg) == [call |-> call, arg |-> arg]

\* ControlValue::as_absolute failed.
AsAbsoluteErr == Err("relative value not supported")

\* The arms of control that switch something off with zero and on otherwise.
OnOff(value, off_call, on_call) ==
    IF value.kind # "Absolute"
    THEN AsAbsoluteErr
    ELSE IF is_zero(value.value)
         THEN Ok(<<HostCall(off_call, "")>>)
         ELSE Ok(<<HostCall(on_call, "")>>)

\* The arms of control that set a value.
SetValue(value, call) ==
    IF value.kind # "Absolute"
    THEN AsAbsoluteErr
    ELSE Ok(<<HostCall(call, value.value)>>)

reaper_target_control_LenientAction(target, value) ==
    CASE target.type = "Action" ->
            IF value.kind = "Absolute"
            THEN CASE target.invocation_type = "Trigger" ->
                         IF ~is_zero(value.value)
                         THEN Ok(<<HostCall("invoke", value.value)>>)
                         ELSE Ok(<<>>)
                   [] target.invocation_type = "Absolute" ->
                         Ok(<<HostCall("invoke", value.value)>>)
                   [] target.invocation_type = "Relative" ->
                         Ok(<<HostCall("invoke", value.value)>>)
            ELSE Ok(<<HostCall("invoke_relative", value.value)>>)
      [] OTHER -> SetValue(value, "set")

\* ReaperTarget::control
reaper_target_control(target, value) ==
    CASE target.type = "Action" ->
            IF value.kind = "Absolute"
            THEN CASE target.invocation_type = "Trigger" ->
                         IF ~is_zero(value.value)
                         THEN Ok(<<HostCall("invoke", value.value)>>)
                         ELSE Ok(<<>>)
                   [] target.invocation_type = "Absolute" ->
                         Ok(<<HostCall("invoke", value.value)>>)
                   [] target.invocation_type = "Relative" ->
                         Err("relative invocation type can't take absolute values")
            ELSE IF target.invocation_type = "Relative"
                 THEN Ok(<<HostCall("invoke_relative", value.value)>>)
                 ELSE Err("relative values need relative invocation type")
      [] target.type = "FxParameter" ->
            IF value.kind # "Absolute"
            THEN AsAbsoluteErr
            ELSE IF target.host_accepts
                 THEN Ok(<<HostCall("set_reaper_normalized_value", value.value)>>)
                 ELSE Panic(<<HostCall("set_reaper_normalized_value", value.value)>>)
      [] target.type = "TrackVolume" -> SetValue(value, "track.set_volume")
      [] target.type = "TrackSendVolume" -> SetValue(value, "send.set_volume")
      [] target.type = "TrackPan" -> SetValue(value, "track.set_pan")
      [] target.type = "TrackWidth" -> SetValue(value, "track.set_width")
      [] target.type = "TrackArm" -> OnOff(value, "track.disarm", "track.arm")
      [] target.type = "TrackSelection" ->
            IF value.kind # "Absolute"
            THEN AsAbsoluteErr
            ELSE Ok(<<HostCall(IF is_zero(value.value) THEN "track.unselect"
                               ELSE IF target.select_exclusively
                                    THEN "track.select_exclusively"
                                    ELSE "track.select", ""),
                      HostCall("track.scroll_mixer", "")>>)
      [] target.type = "TrackMute" -> OnOff(value, "track.unmute", "track.mute")
      [] target.type = "TrackSolo" -> OnOff(value, "track.unsolo", "track.solo")
      [] target.type = "TrackSendPan" -> SetValue(value, "send.set_pan")
      [] target.type = "TrackSendMute" -> OnOff(value, "send.unmute", "send.mute")
      [] target.type = "Tempo" -> SetValue(value, "project.set_tempo")
      [] target.type = "Playrate" -> SetValue(value, "project.set_play_rate")
      [] target.type = "FxEnable" -> OnOff(value, "fx.disable", "fx.enable")
      [] target.type = "FxPreset" ->
            IF value.kind # "Absolute"
            THEN AsAbsoluteErr
            ELSE LET preset_index ==
                         \* convert_unit_value_to_preset_index: preset_count().ok()?
                         IF target.preset_count.some
                         THEN convert_unit_to_discrete_value_with_none(
                                  value.value, target.preset_count.value)
                         ELSE None
                 IN Ok(<<HostCall("fx.activate_preset",
                                  IF preset_index.some THEN preset_index.value
                                  ELSE "FactoryPreset")>>)
      [] target.type = "SelectedTrack" ->
            IF value.kind # "Absolute"
            THEN AsAbsoluteErr
            ELSE LET track_index ==
                         convert_unit_to_discrete_value_with_none(value.value, target.track_count)
                 IN IF ~track_index.some
                    THEN Ok(<<HostCall("master_track.select_exclusively", "")>>)
                    ELSE IF track_index.value < target.track_count
                         THEN Ok(<<HostCall("track.select_exclusively", track_index.value)>>)
                         ELSE Err("track not available")
      [] target.type = "AllTrackFxEnable" -> OnOff(value, "track.disable_fx", "track.enable_fx")
      [] target.type = "Transport" ->
            (CASE target.action = "PlayStop" -> OnOff(value, "project.stop", "project.play")
               [] target.action = "PlayPause" -> OnOff(value, "project.pause", "project.play")
               [] target.action = "Record" ->
                     OnOff(value, "disable_record_in_current_project",
                           "enable_record_in_current_project")
               [] target.action = "Repeat" ->
                     OnOff(value, "project.disable_repeat", "project.enable_repeat"))
      [] target.type = "LoadFxSnapshot" ->
            IF value.kind # "Absolute"
            THEN AsAbsoluteErr
            ELSE IF ~is_zero(value.value)
                 THEN Ok(<<HostCall("load_fx_snapshot", "")>>)
                 ELSE Ok(<<>>)

\* ------------------------------------------------------------ state machine
VARIABLES
    rt,                   \* the RealTimeProcessor
    normal_task_queue,    \* channel behind normal_task_receiver
    feedback_task_queue,  \* channel behind feedback_task_receiver
    pc,                   \* where the audio thread is: "ready", or inside idle
    taken,                \* tasks taken by the loop idle is in
    step,                 \* the last step of the audio thread and its input
    sent,                 \* number of burst tasks sent so far (SpecBulk)
    applied,              \* number of tasks idle has applied so far (SpecBulk)
    fifo,                 \* every task applied so far was the next of the burst
    surface,              \* the RealearnControlSurfaceMiddleware
    garbage,              \* the channel behind garbage_receiver
    bin,                  \* the GarbageBin of the channel and its callers
    manager,              \* the OscDeviceManager
    last_call             \* the last call of a function of the application and
                          \* data layers: its arguments and its result

vars == <<rt, normal_task_queue, feedback_task_queue, pc, taken, step, sent, applied, fifo,
          surface, garbage, bin, manager, last_call>>

\* the real-time processor, its channels and the audio thread
rtvars == <<rt, normal_task_queue, feedback_task_queue, pc, taken, step, sent, applied, fifo>>

\* the control surface and the garbage bin
csvars == <<surface, garbage, bin>>

Step(op, task, msg, events, e) ==
    [op |-> op, task |-> task, msg |-> msg, events |-> events,
     playing |-> e.playing, bpm |-> e.bpm]

NoMsg == Msg("None", 0)

Init ==
    /\ rt = NewRealTimeProcessor
    /\ normal_task_queue = <<>>
    /\ feedback_task_queue = <<>>
    /\ pc = "ready"
    /\ taken = 0
    /\ step = Step("new", NoTask, NoMsg, <<>>, QuietEnv)
    /\ sent = 0
    /\ applied = 0
    /\ fifo = TRUE
    /\ surface = NoMiddleware
    /\ garbage = NoGarbageChannel
    /\ bin = NoGarbageBin
    /\ manager = OscDeviceManagerNew
    /\ last_call = NoCall

\* The main thread sends a normal task.
SendNormalTask(task) ==
    /\ normal_task_queue' = Append(normal_task_queue, task)
    /\ UNCHANGED <<rt, feedback_task_queue, pc, taken, step>>

\* The main thread sends a feedback task.
SendFeedbackTask(task) ==
    /\ feedback_task_queue' = Append(feedback_task_queue, task)
    /\ UNCHANGED <<rt, normal_task_queue, pc, taken, step>>

\* Crossbeam's try_iter: the next task of the channel and what stays in it.
TryRecv(queue) == [task |-> Head(queue), rest |-> Tail(queue)]

\* A loop that stops one task late.
NormalBudgetLeftOffByOne(n) == n <= NORMAL_BULK_SIZE

\* take(NORMAL_BULK_SIZE): may the loop ask the channel for another task?
NormalBudgetLeft(n) == n < NORMAL_BULK_SIZE

\* take(FEEDBACK_BULK_SIZE)
FeedbackBudgetLeft(n) == n < FEEDBACK_BULK_SIZE

\* idle is called: the loop over the normal tasks begins.
IdleBegin ==
    /\ pc = "ready"
    /\ ~Halted(rt)
    /\ pc' = "normal"
    /\ taken' = 0
    /\ rt' = BeginCall(rt)
    /\ step' = Step("idle", NoTask, NoMsg, <<>>, QuietEnv)
    /\ UNCHANGED <<normal_task_queue, feedback_task_queue>>

\* idle: one round of the loop over the normal tasks.
IdleTakeNormal ==
    /\ pc = "normal"
    /\ ~Halted(rt)
    /\ NormalBudgetLeft(taken)
    /\ normal_task_queue # <<>>
    /\ LET got == TryRecv(normal_task_queue)
       IN /\ rt' = ApplyNormalTask(rt, got.task)
          /\ normal_task_queue' = got.rest
          /\ step' = Step("normal_task", got.task, NoMsg, <<>>, QuietEnv)
    /\ taken' = taken + 1
    /\ UNCHANGED <<feedback_task_queue, pc>>

\* A loop that receives one more task when its budget is used up, and drops
\* it.
IdleNormalDoneDroppingOne ==
    /\ pc = "normal"
    /\ ~Halted(rt)
    /\ ~NormalBudgetLeft(taken) \/ normal_task_queue = <<>>
    /\ pc' = "feedback"
    /\ taken' = 0
    /\ step' = Step("normal_done", NoTask, NoMsg, <<>>, QuietEnv)
    /\ normal_task_queue' = IF normal_task_queue = <<>> THEN <<>>
                            ELSE TryRecv(normal_task_queue).rest
    /\ UNCHANGED <<rt, feedback_task_queue>>

\* idle: the loop over the normal tasks ends, the budget is used up or the
\* channel is empty.
IdleNormalDone ==
    /\ pc = "normal"
    /\ ~Halted(rt)
    /\ ~NormalBudgetLeft(taken) \/ normal_task_queue = <<>>
    /\ pc' = "feedback"
    /\ taken' = 0
    /\ step' = Step("normal_done", NoTask, NoMsg, <<>>, QuietEnv)
    /\ UNCHANGED <<rt, normal_task_queue, feedback_task_queue>>

\* idle: one round of the loop over the feedback tasks.
IdleTakeFeedback ==
    /\ pc = "feedback"
    /\ FeedbackBudgetLeft(taken)
    /\ feedback_task_queue # <<>>
    /\ LET got == TryRecv(feedback_task_queue)
       IN /\ rt' = feedback(rt, got.task.value)
          /\ feedback_task_queue' = got.rest
    /\ taken' = taken + 1
    /\ step' = Step("feedback_task", NoTask, NoMsg, <<>>, QuietEnv)
    /\ UNCHANGED <<normal_task_queue, pc>>

\* The sequences of at most MaxDevEvents events, of the messages msgs, that a
\* device delivers in one cycle.
DeviceEvents(msgs) == UNION {[1..n -> msgs] : n \in 0..MaxDevEvents}

\* idle, after the loops: remember the play state, read the device, poll the
\* source scanner.
IdleFinish(r, events, e) ==
    LET r1 == [r EXCEPT !.was_playing_in_last_cycle = e.playing]
        r2 == IF r1.midi_control_input = "Device"
              THEN process_device_events(r1, events, e) ELSE r1
    IN IF r2.control_state = "LearningSource" THEN poll_source_scanner(r2, e) ELSE r2

IdleEnd(events, e) ==
    /\ pc = "feedback"
    /\ ~FeedbackBudgetLeft(taken) \/ feedback_task_queue = <<>>
    /\ rt.midi_control_input # "Device" => events = <<>>
    /\ rt' = IdleFinish(rt, events, e)
    /\ pc' = "ready"
    /\ taken' = 0
    /\ step' = Step("idle_end", NoTask, NoMsg, events, e)
    /\ UNCHANGED <<normal_task_queue, feedback_task_queue>>

\* The host passes a MIDI event of the FX input to the plug-in.
MidiFromFxInput(msg, e) ==
    /\ pc = "ready"
    /\ ~Halted(rt)
    /\ rt' = process_incoming_midi_from_fx_input(BeginCall(rt), msg, e)
    /\ step' = Step("fx_input", NoTask, msg, <<>>, e)
    /\ UNCHANGED <<normal_task_queue, feedback_task_queue, pc, taken>>

\* --------------------------------------------------------------------- Spec
\* The inputs of Spec.
Orders == {<<1, 2>>, <<2, 1>>}
Envs == {Env(o, p, b, g) : o \in Orders, p \in BOOLEAN, b \in BOOLEAN, g \in BOOLEAN}

\* The messages of Spec: they leave partial input in each of the scanners.
SpecMsgs == {NoteOn, NoteOff, CC(6), CC(38), ActiveSensing, TimingClock}

MappingLists == {<<Mapping(1, NoteVelocity), Mapping(2, ClockTempo)>>}

SingleMappings == {Mapping(2, NoteVelocity)}

Settings(matched, unmatched, input, output) ==
    [let_matched_events_through |-> matched, let_unmatched_events_through |-> unmatched,
     midi_control_input |-> input, midi_feedback_output |-> output]

SettingsSet ==
    {Settings(TRUE, TRUE, "FxInput", "FxOutput"), Settings(TRUE, TRUE, "Device", "None")}

\* The source values the main thread sends as feedback.
FeedbackValues == {Plain(NoteOn)}

ActivationUpdateLists ==
    {<<ActivationUpdate(1, FALSE)>>,
     <<ActivationUpdate(1, TRUE), ActivationUpdate(UnknownId, TRUE)>>}

NormalTasks ==
    {UpdateAllMappings(ms) : ms \in MappingLists}
    \cup {UpdateSingleMapping(m) : m \in SingleMappings}
    \cup {UpdateSettings(st) : st \in SettingsSet}
    \cup {EnableMappingsExclusively(ids) : ids \in {{1}, {1, 2}, {2, UnknownId}}}
    \cup {UpdateMappingActivations(ups) : ups \in ActivationUpdateLists}
    \cup {LogDebugInfo, UpdateSampleRate, StartLearnSource, StopLearnSource}

\* The environments that make a difference for the messages msgs: the
\* iteration order needs two mappings, the tempo a timing clock, the guess
\* of the source scanner the learning state and, in the FX input handler,
\* the play state a note-off.
EnvsFor(msgs) ==
    {e \in Envs : /\ Cardinality(DOMAIN rt.mappings) < 2 => e.order = <<1, 2>>
                  /\ TimingClock \notin msgs => ~e.bpm
                  /\ pc = "ready" /\ NoteOff \notin msgs => ~e.playing
                  /\ rt.control_state = "Controlling" => ~e.guess}

Range(seq) == {seq[i] : i \in 1..Len(seq)}

\* In Spec and SpecControl the main thread sends one task per audio cycle,
\* when idle is about to look at the queue.  (A send commutes with the MIDI
\* handlers, which do not touch the queue; SpecBulk has the sends at any time
\* and more than NORMAL_BULK_SIZE tasks in the queue.)
SendOneOf(tasks) ==
    /\ pc = "normal"
    /\ taken = 0
    /\ normal_task_queue = <<>>
    /\ \E task \in tasks : SendNormalTask(task)
    /\ UNCHANGED <<sent, applied, fifo, surface, garbage, bin, manager, last_call>>

IdleWith(msgs) ==
    /\ \/ IdleBegin
       \/ IdleTakeNormal
       \/ IdleNormalDone
       \/ \E events \in IF rt.midi_control_input = "Device"
                         THEN DeviceEvents(msgs) ELSE {<<>>} :
             \E e \in EnvsFor(Range(events)) : IdleEnd(events, e)
    /\ UNCHANGED <<sent, applied, fifo, surface, garbage, bin, manager, last_call>>

MidiOneOf(msgs) ==
    /\ \E msg \in msgs : \E e \in EnvsFor({msg}) : MidiFromFxInput(msg, e)
    /\ UNCHANGED <<sent, applied, fifo, surface, garbage, bin, manager, last_call>>

\* The main thread sends one feedback task per audio cycle.
SendFeedbackOneOf(values) ==
    /\ pc = "feedback"
    /\ taken = 0
    /\ feedback_task_queue = <<>>
    /\ \E value \in values : SendFeedbackTask(Feedback(value))
    /\ UNCHANGED <<sent, applied, fifo, surface, garbage, bin, manager, last_call>>

IdleFeedback == IdleTakeFeedback /\ UNCHANGED <<sent, applied, fifo, surface, garbage, bin, manager, last_call>>

Next ==
    \/ SendOneOf(NormalTasks)
    \/ IdleWith(SpecMsgs)
    \/ MidiOneOf(SpecMsgs)
    \/ SendFeedbackOneOf(FeedbackValues)
    \/ IdleFeedback

Spec == Init /\ [][Next]_vars

\* ------------------------------------------------------------- SpecFeedback
\* Feedback to each kind of output: the settings change in the loop over the
\* normal tasks, feedback tasks with values of each kind follow.
FeedbackSettingsSet ==
    {Settings(FALSE, through, "FxInput", output) :
        through \in BOOLEAN, output \in {"None", "FxOutput", "Device"}}

FeedbackNormalTasks ==
    {UpdateSettings(st) : st \in FeedbackSettingsSet} \cup {LogDebugInfo, UpdateSampleRate}

AllFeedbackValues == {Plain(NoteOn), ControlChange14Bit(6), ParameterNumber(0, 14), Tempo}

NextFeedback ==
    \/ SendOneOf(FeedbackNormalTasks)
    \/ IdleWith({})
    \/ MidiOneOf({NoteOn})
    \/ SendFeedbackOneOf(AllFeedbackValues)
    \/ IdleFeedback

SpecFeedback == Init /\ [][NextFeedback]_vars

\* -------------------------------------------------------------- SpecControl
\* The processor in Controlling state: every message, every setting of the
\* pass-through flags and of the input, tables with sources of every kind.
ControlMappingLists ==
    {<<Mapping(1, NoteVelocity), Mapping(2, NoteVelocity)>>,
     <<Mapping(1, ParameterNumberValue), Mapping(2, OtherParameterNumberValue)>>,
     <<Mapping(1, ControlChange14BitValue), Mapping(2, ClockTempo)>>,
     <<Mapping(1, ControlChangeValue), Mapping(2, OtherParameterNumberValue)>>}

ControlSettingsSet ==
    {Settings(m, u, i, "None") : m \in BOOLEAN, u \in BOOLEAN, i \in {"FxInput", "Device"}}

ControlNormalTasks ==
    {UpdateAllMappings(ms) : ms \in ControlMappingLists}
    \cup {UpdateSettings(st) : st \in ControlSettingsSet}
    \cup {EnableMappingsExclusively(ids) : ids \in SUBSET MappingIds}

NextControl == SendOneOf(ControlNormalTasks) \/ IdleWith(Msgs) \/ MidiOneOf(Msgs)

SpecControl == Init /\ [][NextControl]_vars

\* ---------------------------------------------------------- SpecDeviceInput
\* The control input is the FX input or a device, in Controlling and in
\* LearningSource state, with every setting of the pass-through flags.
DeviceInputTasks ==
    {UpdateSettings(st) : st \in ControlSettingsSet}
    \cup {UpdateAllMappings(<<Mapping(1, NoteVelocity), Mapping(2, ClockTempo)>>),
          StartLearnSource, StopLearnSource}

DeviceInputMsgs == {NoteOn, CC(6), TimingClock}

NextDeviceInput ==
    \/ SendOneOf(DeviceInputTasks)
    \/ IdleWith(DeviceInputMsgs)
    \/ MidiOneOf(DeviceInputMsgs)

SpecDeviceInput == Init /\ [][NextDeviceInput]_vars

\* -------------------------------------------------------------- SpecChannel
\* The coordination tier stops draining its channels (they fill up), drains
\* them again, or drops its receivers, between two calls of the audio thread.
MainReceivers ==
    /\ pc = "ready"
    /\ ~Halted(rt)
    /\ \E to \in {"Draining", "Stalled", "Dropped"} :
          /\ to # rt.main_receivers
          /\ rt.main_receivers = "Dropped" => to = "Dropped"
          /\ rt' = [rt EXCEPT !.main_receivers = to]
    /\ step' = Step("main_receivers", NoTask, NoMsg, <<>>, QuietEnv)
    /\ UNCHANGED <<normal_task_queue, feedback_task_queue, pc, taken, sent, applied, fifo,
                   surface, garbage, bin, manager, last_call>>

ChannelMsgs == {NoteOn, CC(6), TimingClock}

ChannelNormalTasks ==
    {UpdateAllMappings(<<Mapping(1, NoteVelocity), Mapping(2, ClockTempo)>>),
     UpdateSettings(Settings(TRUE, TRUE, "FxInput", "None")),
     UpdateSettings(Settings(TRUE, TRUE, "Device", "None")),
     StartLearnSource, StopLearnSource}

NextChannel ==
    \/ SendOneOf(ChannelNormalTasks)
    \/ IdleWith(ChannelMsgs)
    \/ MidiOneOf(ChannelMsgs)
    \/ MainReceivers

SpecChannel == Init /\ [][NextChannel]_vars

\* -------------------------------------------------------------- SpecSurface
\* The control surface: its construction over a garbage channel, the main
\* tasks sent to it, the calls of run and handle_event, its drop.

\* The channel of the garbage is created (outside src).
NewChannelOneOf(boundedness) ==
    /\ ~garbage.created
    /\ \E bounded \in boundedness : garbage' = NewGarbageChannel(bounded)
    /\ UNCHANGED <<surface, bin>>
    /\ UNCHANGED <<rtvars, manager, last_call>>

NewMiddlewareOneOf(flags) ==
    /\ garbage.created
    /\ surface.lifecycle = "Unborn"
    /\ \E metrics_enabled \in flags :
          surface' = NewRealearnControlSurfaceMiddleware(metrics_enabled)
    /\ UNCHANGED <<garbage, bin>>
    /\ UNCHANGED <<rtvars, manager, last_call>>

AddsWaiting(tasks) == Len(SelectSeq(tasks, LAMBDA t : t.type = "AddMainProcessor"))

\* Some thread sends a main task; a main processor that is added is the one
\* of the next instance and receives from the OSC device of the same number.
SendMainTaskOneOf(types) ==
    /\ surface.lifecycle = "Alive"
    /\ Len(surface.main_task_receiver) < MaxMainTasks
    /\ \E type \in types :
          LET next == Len(surface.main_processors)
                          + AddsWaiting(surface.main_task_receiver) + 1
              p == IF type = "AddMainProcessor" THEN MainProcessor(next, next)
                   ELSE NoMainProcessor
          IN /\ type = "AddMainProcessor" => next <= MaxMainProcessors
             /\ surface' = [surface EXCEPT !.call = "send", !.changes = <<>>, !.try_send_fails = FALSE,
                                           !.main_task_receiver =
                                               Append(@, MainTask(type, p, 0))]
    /\ UNCHANGED <<garbage, bin>>
    /\ UNCHANGED <<rtvars, manager, last_call>>

\* ControlSurfaceMiddleware::run
RunOneOf(envs) ==
    /\ surface.lifecycle = "Alive"
    /\ \E e \in envs : surface' = run_internal(surface, e)
    /\ garbage' = [garbage EXCEPT !.items = GarbageDrop(@)]
    /\ UNCHANGED bin
    /\ UNCHANGED <<rtvars, manager, last_call>>

\* ControlSurfaceMiddleware::handle_event
HandleEventOneOf(change_lists) ==
    /\ surface.lifecycle = "Alive"
    /\ \E changes \in change_lists :
          \E try_send_fails \in {FALSE, surface.state = "LearningTarget"} :
             surface' = handle_event_internal(surface, changes, try_send_fails)
    /\ UNCHANGED <<garbage, bin>>
    /\ UNCHANGED <<rtvars, manager, last_call>>

\* The middleware is dropped.
DropMiddleware ==
    /\ surface.lifecycle = "Alive"
    /\ surface' = [surface EXCEPT !.lifecycle = "Dropped", !.call = "drop", !.changes = <<>>,
                                   !.try_send_fails = FALSE]
    /\ garbage' = DropMiddlewareChannel(garbage)
    /\ UNCHANGED bin
    /\ UNCHANGED <<rtvars, manager, last_call>>

\* Metrics are off: the counter is all the state they have.
MetricsFlags == {FALSE}

\* The change events of SpecSurface: one of each arm of
\* touched_from_change_event, tagged as touched or not.
ChangeEvents ==
    {ChangeEvent(type, touched, FALSE, TRUE) :
        type \in {"TrackVolumeChanged", "TrackArmChanged", "PlayStateChanged"},
        touched \in BOOLEAN}
    \cup {ChangeEvent("TrackPanChanged", touched, FALSE, complete) :
            touched \in BOOLEAN, complete \in BOOLEAN}
    \cup {ChangeEvent("TrackSoloChanged", touched, master, TRUE) :
            touched \in BOOLEAN, master \in BOOLEAN}

\* What the change detection makes of one host event: no change event, one,
\* or two.
ChangeLists ==
    {<<>>} \cup {<<c>> : c \in ChangeEvents}
    \cup {<<ChangeEvent("TrackSoloChanged", TRUE, TRUE, TRUE), c>> :
            c \in {ChangeEvent("TrackSoloChanged", TRUE, FALSE, TRUE),
                   ChangeEvent("TrackVolumeChanged", FALSE, FALSE, TRUE)}}
    \cup {<<ChangeEvent("TrackArmChanged", FALSE, FALSE, TRUE),
            ChangeEvent("TrackVolumeChanged", TRUE, FALSE, TRUE)>>}

SurfaceRunEnvs == {QuietRunEnv, RunEnv(1, <<>>)}

NextSurface ==
    \/ NewChannelOneOf({TRUE})
    \/ NewMiddlewareOneOf(MetricsFlags)
    \/ SendMainTaskOneOf(MainTaskTypes)
    \/ RunOneOf(SurfaceRunEnvs)
    \/ HandleEventOneOf(ChangeLists)
    \/ DropMiddleware

SpecSurface == Init /\ [][NextSurface]_vars

\* -------------------------------------------------------------- SpecGarbage
\* A garbage bin over the channel, callers that dispose one value or the
\* parts of a mapping, and the middleware that drains the channel.
NewGarbageBin ==
    /\ garbage.created
    /\ ~bin.constructed
    /\ bin.panic = "None"
    /\ bin' = GarbageBinNew(bin, garbage)
    /\ UNCHANGED <<surface, garbage>>
    /\ UNCHANGED <<rtvars, manager, last_call>>

Disposing(g) ==
    /\ bin' = g.bin
    /\ garbage' = g.channel
    /\ UNCHANGED surface
    /\ UNCHANGED <<rtvars, manager, last_call>>

DisposeOne ==
    /\ bin.constructed
    /\ bin.panic = "None"
    /\ bin.calls < MaxDisposed
    /\ Disposing(dispose([bin |-> bin, channel |-> garbage], bin.calls + 1))

DisposeMapping ==
    /\ bin.constructed
    /\ bin.panic = "None"
    /\ bin.calls + 5 <= MaxDisposed
    /\ Disposing(dispose_real_time_mapping([bin |-> bin, channel |-> garbage],
                                           bin.calls + 1))

NextGarbage ==
    \/ NewChannelOneOf(BOOLEAN)
    \/ NewGarbageBin
    \/ NewMiddlewareOneOf(MetricsFlags)
    \/ DisposeOne
    \/ DisposeMapping
    \/ RunOneOf({QuietRunEnv})
    \/ DropMiddleware

\* The host keeps calling run while the middleware lives.
SpecGarbage == Init /\ [][NextGarbage]_vars /\ WF_vars(RunOneOf({QuietRunEnv}))

\* ---------------------------------------------------------- SpecSurfaceBulk
\* Between two calls of run the senders fill the queues of the middleware
\* with bursts of more items than one run takes.
Queues ==
    {"main_task_receiver", "server_task_receiver",
     "additional_feedback_event_receiver", "instance_orchestration_event_receiver"}

BulkSize(field) ==
    CASE field = "main_task_receiver" -> CONTROL_SURFACE_MAIN_TASK_BULK_SIZE
      [] field = "server_task_receiver" -> CONTROL_SURFACE_SERVER_TASK_BULK_SIZE
      [] field = "additional_feedback_event_receiver" -> ADDITIONAL_FEEDBACK_EVENT_BULK_SIZE
      [] field = "instance_orchestration_event_receiver" ->
            INSTANCE_ORCHESTRATION_EVENT_BULK_SIZE

\* The n-th item sent to a queue.
BulkItem(field, n) ==
    CASE field = "main_task_receiver" -> MainTask("LogDebugInfo", NoMainProcessor, n)
      [] field = "server_task_receiver" -> n
      [] field = "additional_feedback_event_receiver" ->
            AdditionalFeedbackEvent("RealearnMonitoringFxParameterValueChanged", n)
      [] field = "instance_orchestration_event_receiver" -> IoUpdated(1, FALSE, FALSE, FALSE, n)

ItemNumber(field, item) == IF field = "server_task_receiver" THEN item ELSE item.n

\* The queue after a burst: its items are numbered on from the last one waiting.
WithBurst(field, queue) ==
    LET last == IF queue = <<>> THEN 0 ELSE ItemNumber(field, queue[Len(queue)])
    IN queue \o [i \in 1..(BulkSize(field) + BulkExtra) |-> BulkItem(field, last + i)]

BulkSendTo(fields) ==
    /\ surface.lifecycle = "Alive"
    /\ fields # {}
    /\ \A field \in fields : Len(surface[field]) <= BulkExtra
    /\ surface' = [field \in DOMAIN surface |->
                      IF field \in fields THEN WithBurst(field, surface[field])
                      ELSE IF field = "call" THEN "send"
                      ELSE IF field = "changes" THEN <<>>
                      ELSE IF field = "try_send_fails" THEN FALSE
                      ELSE surface[field]]
    /\ UNCHANGED <<garbage, bin>>
    /\ UNCHANGED <<rtvars, manager, last_call>>

\* dispose called for the items from .. to, one after the other.
RECURSIVE DisposeRange(_, _, _)
DisposeRange(g, from, to) ==
    IF from > to THEN g
    ELSE IF from = to THEN dispose(g, from)
    ELSE LET mid == (from + to) \div 2
         IN Bind(DisposeRange(g, from, mid), LAMBDA half : DisposeRange(half, mid + 1, to))

\* A caller of the garbage bin disposes as many values as the channel holds.
BulkDispose ==
    /\ bin.constructed
    /\ bin.panic = "None"
    /\ bin.calls = 0
    /\ Disposing(DisposeRange([bin |-> bin, channel |-> garbage],
                              bin.calls + 1, bin.calls + GarbageCapacity))

BulkSends ==
    \/ \E field \in Queues : BulkSendTo({field})
    \/ BulkSendTo(Queues)

NextSurfaceBulk ==
    \/ NewChannelOneOf({TRUE})
    \/ NewGarbageBin
    \/ NewMiddlewareOneOf(MetricsFlags)
    \/ BulkSends
    \/ BulkDispose
    \/ RunOneOf({QuietRunEnv})

SpecSurfaceBulk == Init /\ [][NextSurfaceBulk]_vars

\* ------------------------------------------------------------------ SpecOsc
\* OSC input devices, main processors listening to them, packets waiting.
OscDeviceIds == {1, 2}

OscDeviceLists == {<<1>>, <<2, 1>>}

\* A main processor that takes its OSC input from one of the devices is sent
\* to the middleware.
AddOscProcessor ==
    /\ surface.lifecycle = "Alive"
    /\ Len(surface.main_task_receiver) < MaxMainTasks
    /\ \E dev \in OscDeviceIds :
          LET next == Len(surface.main_processors)
                          + AddsWaiting(surface.main_task_receiver) + 1
          IN /\ next <= MaxOscProcessors
             /\ surface' = [surface EXCEPT
                               !.call = "send", !.changes = <<>>, !.try_send_fails = FALSE,
                               !.main_task_receiver =
                                   Append(@, MainTask("AddMainProcessor",
                                                      MainProcessor(next, dev), 0))]
    /\ UNCHANGED <<garbage, bin>>
    /\ UNCHANGED <<rtvars, manager, last_call>>

SetOscInputDevices ==
    /\ surface.lifecycle = "Alive"
    /\ \E devs \in OscDeviceLists :
          surface' = [set_osc_input_devices(surface, devs) EXCEPT
                         !.call = "set_osc_input_devices", !.changes = <<>>,
                         !.try_send_fails = FALSE]
    /\ UNCHANGED <<garbage, bin>>
    /\ UNCHANGED <<rtvars, manager, last_call>>

ClearOscInputDevices ==
    /\ surface.lifecycle = "Alive"
    /\ surface.osc_input_devices # <<>>
    /\ surface' = [clear_osc_input_devices(surface) EXCEPT
                      !.call = "clear_osc_input_devices", !.changes = <<>>,
                      !.try_send_fails = FALSE]
    /\ UNCHANGED <<garbage, bin>>
    /\ UNCHANGED <<rtvars, manager, last_call>>

\* A message, and a bundle that holds a message, a bundle and a message.
NestedPackets ==
    <<OscMessage(1),
      OscBundle(2, <<OscMessage(3), OscBundle(4, <<OscMessage(5), OscMessage(6)>>),
                     OscMessage(7)>>),
      OscMessage(8)>>

ManyPackets == [i \in 1..(OSC_INCOMING_BULK_SIZE + OscExtra) |-> OscMessage(100 + i)]

\* The packets waiting in the first and in the second input device.
OscRunEnvs ==
    {QuietRunEnv,
     RunEnv(0, <<NestedPackets, <<OscMessage(9)>> >>),
     RunEnv(0, <<ManyPackets, NestedPackets>>)}

NextOsc ==
    \/ NewChannelOneOf({TRUE})
    \/ NewMiddlewareOneOf(MetricsFlags)
    \/ AddOscProcessor
    \/ SendMainTaskOneOf({"StartLearningSources", "StartLearningTargets", "StopLearning"})
    \/ SetOscInputDevices
    \/ ClearOscInputDevices
    \/ RunOneOf(OscRunEnvs)

SpecOsc == Init /\ [][NextOsc]_vars

\* ----------------------------------------------------------- SpecOscDevices
\* The OSC device manager and the callers that add, update and remove devices.
OscDevices == {OscDevice(id, name) : id \in OscDeviceIds, name \in {"a", "b"}}

AddDevice ==
    /\ Len(manager.devices) < MaxOscDevices
    /\ \E dev \in OscDevices, save_ok \in BOOLEAN :
          manager' = add_device(manager, dev, save_ok)
    /\ UNCHANGED <<rtvars, csvars, last_call>>

UpdateDevice ==
    /\ \E dev \in OscDevices, save_ok \in BOOLEAN :
          manager' = update_device(manager, dev, save_ok)
    /\ UNCHANGED <<rtvars, csvars, last_call>>

RemoveDeviceById ==
    /\ \E dev_id \in OscDeviceIds, save_ok \in BOOLEAN :
          manager' = remove_device_by_id(manager, dev_id, save_ok)
    /\ UNCHANGED <<rtvars, csvars, last_call>>

NextOscDevices == AddDevice \/ UpdateDevice \/ RemoveDeviceById

SpecOscDevices == Init /\ [][NextOscDevices]_vars

\* -------------------------------------------------------- SpecOrchestration
\* Instances release sources: main processors come and go, a SourceReleased
\* event waits for the next run.
InstanceIds == 1..MaxOscProcessors

RemoveMainProcessor ==
    /\ surface.lifecycle = "Alive"
    /\ \E id \in InstanceIds :
          /\ \E i \in 1..Len(surface.main_processors) :
                surface.main_processors[i].instance_id = id
          /\ surface' = [remove_main_processor(surface, id) EXCEPT
                            !.call = "remove_main_processor", !.changes = <<>>,
                            !.try_send_fails = FALSE]
    /\ UNCHANGED <<garbage, bin>>
    /\ UNCHANGED <<rtvars, manager, last_call>>

\* has_source: RealSource::from_feedback_value yields a source; accepting: the
\* instances whose maybe_takeover_source will return true.
SendSourceReleased ==
    /\ surface.lifecycle = "Alive"
    /\ surface.instance_orchestration_event_receiver = <<>>
    /\ \E id \in InstanceIds, has_source \in BOOLEAN, accepting \in SUBSET InstanceIds :
          surface' = [surface EXCEPT
                         !.call = "send", !.changes = <<>>, !.try_send_fails = FALSE,
                         !.instance_orchestration_event_receiver =
                             <<SourceReleased(id, has_source, accepting, 1)>>]
    /\ UNCHANGED <<garbage, bin>>
    /\ UNCHANGED <<rtvars, manager, last_call>>

NextOrchestration ==
    \/ NewChannelOneOf({TRUE})
    \/ NewMiddlewareOneOf(MetricsFlags)
    \/ AddOscProcessor
    \/ RemoveMainProcessor
    \/ SendSourceReleased
    \/ RunOneOf({QuietRunEnv})

SpecOrchestration == Init /\ [][NextOrchestration]_vars

\* --------------------------------------------------------------- SpecPreset
\* A list of mappings is made project-independent.
PresetTargets ==
    {TargetModel(category, type, track_type, fx_type) :
        category \in {"Reaper", "Virtual"}, type \in ReaperTargetTypes,
        track_type \in {"This", "ById", "ByName"}, fx_type \in {"This", "ById", "ByName"}}

PresetMappingLists ==
    {<<>>} \cup {<<t>> : t \in PresetTargets}
    \cup {<<TargetModel("Reaper", "FxParameter", "ById", "ById"), t>> : t \in PresetTargets}

ProcessorContexts ==
    {ProcessorContext(fx, track) : fx \in BOOLEAN, track \in {"Err", "NoIndex", "Index"}}

MakeMappingsProjectIndependent ==
    /\ \E mappings \in PresetMappingLists, context \in ProcessorContexts :
          last_call' = [fn |-> "make_mappings_project_independent",
                        mappings |-> mappings, context |-> context,
                        result |-> make_mappings_project_independent(mappings, context)]
    /\ UNCHANGED <<rtvars, csvars, manager>>

SpecPreset == Init /\ [][MakeMappingsProjectIndependent]_vars

\* ------------------------------------------------------------- SpecModeData
\* Mode data is loaded into a mode model, and a mode model is saved and loaded.
Durations == {from_millis(0), from_millis(50), Duration(0, 50, 500000), Duration(1, 50, 0)}

ModeModels ==
    {[ModeModelDefault EXCEPT
        !.type = type,
        !.target_value_interval = target_value_interval,
        !.press_duration_interval = Interval(from_millis(0), max_press),
        !.turbo_rate = turbo_rate,
        !.reverse = reverse,
        !.out_of_range_behavior = out_of_range_behavior,
        !.takeover_mode = takeover] :
        type \in {"Normal", "ToggleButtons"},
        target_value_interval \in {Interval(0, UnitValueOne), Interval(20, 50)},
        max_press \in Durations, turbo_rate \in Durations, reverse \in BOOLEAN,
        out_of_range_behavior \in {"Ignore"}, takeover \in {"LongTimeNoSee"}}

ModeModelDatas ==
    {[from_model(ModeModelDefault) EXCEPT
        !.type = type,
        !.min_target_value = target_value_interval.min_val,
        !.max_target_value = target_value_interval.max_val,
        !.reverse_is_enabled = reverse,
        !.ignore_out_of_range_source_values_is_enabled = ignore,
        !.out_of_range_behavior = out_of_range_behavior,
        !.scale_mode_enabled = scale,
        !.takeover_mode = takeover] :
        type \in {"Normal", "IncrementalButtons", "ToggleButtons"},
        target_value_interval \in {Interval(0, UnitValueOne), Interval(20, 50)},
        reverse \in BOOLEAN, ignore \in BOOLEAN,
        out_of_range_behavior \in {"Min", "Ignore"},
        scale \in BOOLEAN, takeover \in {"LongTimeNoSee", "Parallel"}}

LoadedInto == {ModeModelDefault, [ModeModelDefault EXCEPT !.reverse = TRUE, !.rotate = TRUE]}

ApplyToModelFlexible ==
    /\ \E data \in ModeModelDatas, model \in {ModeModelDefault}, migration \in BOOLEAN :
          last_call' = [fn |-> "apply_to_model_flexible",
                        data |-> data, model |-> model,
                        migration_descriptor |-> MigrationDescriptor(migration),
                        result |-> apply_to_model_flexible(data, model,
                                                           MigrationDescriptor(migration))]
    /\ UNCHANGED <<rtvars, csvars, manager>>

\* from_model(m) is applied to a model with apply_to_model; the data of the
\* result is taken again.
SaveAndLoad ==
    /\ \E m \in ModeModels, model \in LoadedInto :
          LET loaded == apply_to_model(from_model(m), model)
          IN last_call' = [fn |-> "apply_to_model", m |-> m, data |-> from_model(m),
                           model |-> model, result |-> loaded,
                           data_of_result |-> from_model(loaded)]
    /\ UNCHANGED <<rtvars, csvars, manager>>

NextModeData == ApplyToModelFlexible \/ SaveAndLoad

SpecModeData == Init /\ [][NextModeData]_vars

\* --------------------------------------------------------- SpecReaperTarget
\* Values are converted between unit values and indexes, and targets are
\* controlled.
MaxCount == 4

Counts == 0..MaxCount

UnitFractions == UNION {{Fraction(num, den) : num \in 0..den} : den \in 1..MaxCount}

Indexes == {None} \cup {Some(i) : i \in 0..MaxCount}

\* The index is converted to a unit value and the unit value back.
ConvertDiscreteToUnit ==
    /\ \E value \in Indexes, count \in Counts :
          LET unit == convert_discrete_to_unit_value_with_none(value, count)
          IN last_call' = [fn |-> "convert_discrete_to_unit_value_with_none",
                           value |-> value, count |-> count, result |-> unit,
                           back |-> convert_unit_to_discrete_value_with_none(unit, count)]
    /\ UNCHANGED <<rtvars, csvars, manager>>

ConvertUnitToDiscrete ==
    /\ \E value \in UnitFractions, count \in Counts :
          last_call' = [fn |-> "convert_unit_to_discrete_value_with_none",
                        value |-> value, count |-> count,
                        result |-> convert_unit_to_discrete_value_with_none(value, count)]
    /\ UNCHANGED <<rtvars, csvars, manager>>

ReaperTargets ==
    {[type |-> "Action", invocation_type |-> t] : t \in {"Trigger", "Absolute", "Relative"}}
    \cup {[type |-> "FxParameter", host_accepts |-> b] : b \in BOOLEAN}
    \cup {[type |-> t] : t \in {"TrackVolume", "TrackSendVolume", "TrackPan", "TrackWidth",
                                 "TrackArm", "TrackMute", "TrackSolo", "TrackSendPan",
                                 "TrackSendMute", "Tempo", "Playrate", "FxEnable",
                                 "AllTrackFxEnable", "LoadFxSnapshot"}}
    \cup {[type |-> "TrackSelection", select_exclusively |-> b] : b \in BOOLEAN}
    \cup {[type |-> "FxPreset", preset_count |-> c] : c \in {None} \cup {Some(n) : n \in Counts}}
    \cup {[type |-> "SelectedTrack", track_count |-> n] : n \in Counts}
    \cup {[type |-> "Transport", action |-> a] :
              a \in {"PlayStop", "PlayPause", "Record", "Repeat"}}

ControlValues == {Absolute(v) : v \in UnitFractions} \cup {Relative(i) : i \in {-1, 1}}

Control ==
    /\ \E target \in ReaperTargets, value \in ControlValues :
          last_call' = [fn |-> "control", target |-> target, value |-> value,
                        result |-> reaper_target_control(target, value)]
    /\ UNCHANGED <<rtvars, csvars, manager>>

NextReaperTarget == ConvertDiscreteToUnit \/ ConvertUnitToDiscrete \/ Control

SpecReaperTarget == Init /\ [][NextReaperTarget]_vars

\* ----------------------------------------------------------------- SpecBulk
\* The main thread sends a burst of more than NORMAL_BULK_SIZE structural
\* updates, at any time, also while idle drains the queue.
BurstLen == NORMAL_BULK_SIZE + BurstExtra

BurstPattern ==
    <<UpdateAllMappings(<<Mapping(1, NoteVelocity), Mapping(2, ParameterNumberValue)>>),
      UpdateSettings(Settings(TRUE, FALSE, "FxInput", "FxOutput")),
      EnableMappingsExclusively({1}),
      UpdateMappingActivations(<<ActivationUpdate(2, FALSE)>>),
      UpdateSingleMapping(Mapping(2, ControlChange14BitValue)),
      UpdateSettings(Settings(FALSE, TRUE, "Device", "None")),
      UpdateMappingActivations(<<ActivationUpdate(1, FALSE), ActivationUpdate(2, TRUE)>>)>>

\* The i-th task of the burst.
BurstTask(i) == BurstPattern[((i - 1) % Len(BurstPattern)) + 1]

\* The settings and the table a sequence of tasks leaves, applied one after
\* the other to a new processor.
RECURSIVE ApplyBurst(_, _, _)
ApplyBurst(r, from, to) ==
    IF from > to THEN r
    ELSE IF from = to THEN ApplyNormalTask(r, BurstTask(from))
    ELSE LET mid == (from + to) \div 2
         IN CHOOSE res \in {ApplyBurst(x, mid + 1, to) : x \in {ApplyBurst(r, from, mid)}} : TRUE

Synced(r) ==
    [control_state |-> r.control_state,
     midi_control_input |-> r.midi_control_input,
     midi_feedback_output |-> r.midi_feedback_output,
     mappings |-> r.mappings,
     let_matched_events_through |-> r.let_matched_events_through,
     let_unmatched_events_through |-> r.let_unmatched_events_through]

BulkSend ==
    /\ sent < BurstLen
    /\ SendNormalTask(BurstTask(sent + 1))
    /\ sent' = sent + 1
    /\ UNCHANGED <<applied, fifo, surface, garbage, bin, manager, last_call>>

BulkTake ==
    /\ IdleTakeNormal
    /\ applied' = applied + 1
    /\ fifo' = (fifo /\ step'.task = BurstTask(applied + 1))
    /\ UNCHANGED <<sent, surface, garbage, bin, manager, last_call>>

BulkIdle ==
    \/ IdleBegin /\ UNCHANGED <<sent, applied, fifo, surface, garbage, bin, manager, last_call>>
    \/ BulkTake
    \/ IdleNormalDone /\ UNCHANGED <<sent, applied, fifo, surface, garbage, bin, manager, last_call>>
    \/ IdleEnd(<<>>, QuietEnv) /\ UNCHANGED <<sent, applied, fifo, surface, garbage, bin, manager, last_call>>

NextBulk == BulkSend \/ BulkIdle

SpecBulk == Init /\ [][NextBulk]_vars

\* The audio thread keeps calling idle.
SpecBulkFair == SpecBulk /\ WF_vars(BulkIdle)

\* ------------------------------------------------------------------- claims
\* C1: in every call of idle at most NORMAL_BULK_SIZE normal tasks are taken,
\* in the order they were sent; what is beyond the budget stays in the queue
\* in its order; no task is dropped, duplicated or reordered, also while the
\* main thread keeps sending.
C1_BudgetAndFifo ==
    /\ pc = "normal" => taken <= NORMAL_BULK_SIZE
    /\ fifo
    /\ applied + Len(normal_task_queue) = sent
    /\ \A i \in 1..Len(normal_task_queue) : normal_task_queue[i] = BurstTask(applied + i)

\* idle has used up its budget and tasks of the burst are still queued.
C1_Witness ==
    /\ pc = "normal"
    /\ taken = NORMAL_BULK_SIZE
    /\ normal_task_queue # <<>>
    /\ applied = NORMAL_BULK_SIZE

\* C2: once a burst of more than NORMAL_BULK_SIZE structural updates is sent
\* and idle keeps being called, every task of the burst is applied, in the
\* order of the burst, and the processor ends with the settings and the table
\* that applying the burst one task after the other gives.
BurstDone ==
    /\ applied = BurstLen
    /\ fifo
    /\ normal_task_queue = <<>>
    /\ Synced(rt) = Synced(ApplyBurst(NewRealTimeProcessor, 1, BurstLen))

C2_BurstEventuallyApplied == (sent = BurstLen) ~> BurstDone

\* The whole burst is applied, and it took more than one call of idle.
C2_Witness == BurstDone /\ pc = "ready" /\ step.op = "idle_end"

\* --------------------------------------------- claims about the MIDI paths
\* What the last handler call has passed to the host as pass-through, and
\* what of it by the plain path.
PassThrough == SelectSeq(rt.host, LAMBDA h : h.via # "feedback")
PlainForwards == SelectSeq(rt.host, LAMBDA h : h.via \in {"matched", "unmatched"})

\* The Control tasks of the last handler call.
Sent == rt.control_main_task_sender

\* The last step was the FX input handler; its message; was the transport
\* starting (the handler leaves was_playing_in_last_cycle alone).
FxStep == step.op = "fx_input"
Starting == ~rt.was_playing_in_last_cycle /\ step.playing

\* A mapping with a source of plain messages got a Control task.
PlainSourceKinds == {"NoteVelocity", "ControlChangeValue"}
PlainMatched ==
    \E i \in 1..Len(Sent) : rt.mappings[Sent[i].mapping_id].source.kind \in PlainSourceKinds

Forward(via, msg) == [via |-> via, msg |-> msg]

\* C3 as stated: in Controlling state a message that is not consumed is
\* forwarded if and only if (matched and let_matched_events_through) or
\* (unmatched and let_unmatched_events_through), and nothing else decides.
C3_AsStated ==
    (FxStep /\ rt.control_state = "Controlling" /\ ~is_consumed(rt, step.msg))
    => ((\E i \in 1..Len(rt.host) : rt.host[i].msg = step.msg)
        <=> \/ Sent # <<>> /\ rt.let_matched_events_through
            \/ Sent = <<>> /\ rt.let_unmatched_events_through)

\* C3, amended: in Controlling state with the FX input as control input, a
\* message other than a timing clock that is not consumed is forwarded by the
\* plain path, once, if and only if (a plain source matched it and
\* let_matched_events_through) or (no plain source matched it and
\* let_unmatched_events_through); a timing clock is never forwarded, and with
\* a device as control input nothing is forwarded.
C3_PassThroughByFlags ==
    (FxStep /\ rt.control_state = "Controlling")
    => /\ rt.midi_control_input = "Device" => rt.host = <<>>
       /\ (rt.midi_control_input = "FxInput" /\ step.msg.type = "TimingClock")
             => rt.host = <<>>
       /\ (/\ rt.midi_control_input = "FxInput"
           /\ step.msg.type # "TimingClock"
           /\ ~is_consumed(rt, step.msg))
             => PlainForwards =
                    IF PlainMatched /\ rt.let_matched_events_through
                    THEN <<Forward("matched", step.msg)>>
                    ELSE IF ~PlainMatched /\ rt.let_unmatched_events_through
                         THEN <<Forward("unmatched", step.msg)>>
                         ELSE <<>>

\* A matched note-on is let through although unmatched messages are not.
C3_Witness ==
    /\ FxStep
    /\ rt.control_state = "Controlling"
    /\ step.msg = NoteOn
    /\ rt.let_matched_events_through /\ ~rt.let_unmatched_events_through
    /\ Sent # <<>>
    /\ rt.host = <<Forward("matched", NoteOn)>>

\* C4 as stated: a message consumed by the source of a mapping that is on is
\* never forwarded to the host output.
C4_AsStated ==
    (FxStep /\ rt.control_state = "Controlling" /\ is_consumed(rt, step.msg))
    => \A i \in 1..Len(rt.host) : rt.host[i].msg # step.msg

\* C4, amended: a consumed message is never forwarded by the plain path and
\* never gets a Control task of a plain source, whatever the flags; what
\* reaches the host in that call are the messages of a completed NRPN or
\* 14-bit CC message.
C4_ConsumedNotPlain ==
    (FxStep /\ rt.control_state = "Controlling" /\ is_consumed(rt, step.msg))
    => /\ PlainForwards = <<>>
       /\ ~PlainMatched
       /\ \A i \in 1..Len(rt.host) : rt.host[i].via \in {"nrpn", "cc14"}

\* CC 6 is consumed by the NRPN source of mapping 2, so the CC source of
\* mapping 1 gets no Control task and nothing is forwarded, with both flags set.
C4_Witness ==
    /\ FxStep
    /\ rt.control_state = "Controlling"
    /\ rt.midi_control_input = "FxInput"
    /\ step.msg = CC(6)
    /\ is_consumed(rt, step.msg)
    /\ rt.let_matched_events_through /\ rt.let_unmatched_events_through
    /\ 1 \in DOMAIN rt.mappings
    /\ rt.mappings[1].source = ControlChangeValue
    /\ control_is_effectively_on(rt.mappings[1])
    /\ rt.host = <<>>
    /\ Sent = <<>>

\* The last step has passed exactly one source value to control(): a note
\* message (but for the note-off of a transport start) or a timing clock
\* with a tempo, from the FX input or as the only event of a device.
StepMsg == IF FxStep THEN step.msg ELSE step.events[1]

OneValueStep ==
    /\ rt.control_state = "Controlling"
    /\ \/ FxStep /\ rt.midi_control_input = "FxInput"
       \/ step.op = "idle_end" /\ rt.midi_control_input = "Device" /\ Len(step.events) = 1
    /\ \/ StepMsg.type = "NoteOn"
       \/ StepMsg.type = "NoteOff" /\ ~(FxStep /\ Starting)
       \/ StepMsg.type = "TimingClock" /\ step.bpm

StepValue == IF StepMsg.type = "TimingClock" THEN Tempo ELSE Plain(StepMsg)

TasksFor(id) == {i \in 1..Len(Sent) : Sent[i].mapping_id = id}

\* C5: for a source value processed by control(), exactly one Control task
\* is sent for each mapping of the table that is on and whose source matches
\* the value, none for any other mapping, and matched is true if and only if
\* a task was sent (the plain path forwards as matched or as unmatched).
C5_OneTaskPerMatch ==
    OneValueStep
    => /\ \A id \in MappingIds \cup {UnknownId} :
            Cardinality(TasksFor(id)) =
                IF /\ id \in DOMAIN rt.mappings
                   /\ control_is_effectively_on(rt.mappings[id])
                   /\ mapping_control(rt.mappings[id], StepValue)
                THEN 1 ELSE 0
       /\ \A i \in 1..Len(Sent) :
            /\ Sent[i].type = "Control"
            /\ Sent[i].mapping_id \in DOMAIN rt.mappings
            /\ Sent[i].value = (IF StepMsg.type = "NoteOff" THEN 0 ELSE 1)
       /\ \A i \in 1..Len(rt.host) : (rt.host[i].via = "matched") <=> (Sent # <<>>)

\* Two note mappings are on and a note-on gets two Control tasks.
C5_Witness ==
    /\ OneValueStep
    /\ StepMsg = NoteOn
    /\ Len(Sent) = 2
    /\ Sent[1].mapping_id # Sent[2].mapping_id
    /\ rt.host = <<Forward("matched", NoteOn)>>

\* C9 as stated: the note-off of a transport start never gets a Control task
\* and is forwarded if and only if let_unmatched_events_through is set; any
\* other note-off takes the matching path.
NoteOffMatches ==
    \E id \in DOMAIN rt.mappings :
        control_is_effectively_on(rt.mappings[id])
        /\ SourceMatches(rt.mappings[id].source, Plain(NoteOff))

C9_AsStated ==
    (FxStep /\ step.msg = NoteOff)
    => /\ Starting => /\ Sent = <<>>
                      /\ (rt.host # <<>>) <=> rt.let_unmatched_events_through
       /\ ~Starting => ((Sent # <<>>) <=> NoteOffMatches)

\* C9, amended: with the FX input as control input, the note-off of a
\* transport start never gets a Control task, it takes the unmatched path and
\* is forwarded if and only if let_unmatched_events_through is set; any other
\* note-off takes, in Controlling state, the matching path; with a device as
\* control input a note-off of the FX input is ignored.
C9_TransportStartNoteOff ==
    (FxStep /\ step.msg = NoteOff)
    => /\ (rt.midi_control_input = "FxInput" /\ Starting)
            => /\ Sent = <<>>
               /\ rt.host = IF rt.let_unmatched_events_through
                            THEN <<Forward("unmatched", NoteOff)>> ELSE <<>>
       /\ (rt.midi_control_input = "FxInput" /\ ~Starting /\ rt.control_state = "Controlling")
            => /\ (Sent # <<>>) <=> NoteOffMatches
               /\ rt.host = IF NoteOffMatches
                            THEN IF rt.let_matched_events_through
                                 THEN <<Forward("matched", NoteOff)>> ELSE <<>>
                            ELSE IF rt.let_unmatched_events_through
                                 THEN <<Forward("unmatched", NoteOff)>> ELSE <<>>
       /\ rt.midi_control_input = "Device" => Sent = <<>> /\ rt.host = <<>>

\* A note mapping is on, the transport starts, and the note-off is forwarded
\* as unmatched without a Control task.
C9_Witness ==
    /\ FxStep
    /\ step.msg = NoteOff
    /\ Starting
    /\ NoteOffMatches
    /\ rt.let_unmatched_events_through /\ ~rt.let_matched_events_through
    /\ Sent = <<>>
    /\ rt.host = <<Forward("unmatched", NoteOff)>>

\* ------------------------------------------- claims about the normal tasks
\* This step is the round of idle's loop that takes a task of type t.
Taking(t) ==
    /\ pc = "normal"
    /\ normal_task_queue # <<>>
    /\ normal_task_queue' = Tail(normal_task_queue)
    /\ Head(normal_task_queue).type = t

\* The last step has applied a task of type t.
Applied(t) == step.op = "normal_task" /\ step.task.type = t

\* C6: the processor starts in Controlling; StartLearnSource puts it in
\* LearningSource and StopLearnSource in Controlling, from either state; no
\* other step (task, MIDI message, learned source) changes control_state.
C6_ControlState ==
    /\ rt.control_state = "Controlling"
    /\ [][/\ Taking("StartLearnSource") => rt'.control_state = "LearningSource"
          /\ Taking("StopLearnSource") => rt'.control_state = "Controlling"
          /\ ~(Taking("StartLearnSource") \/ Taking("StopLearnSource"))
                => rt'.control_state = rt.control_state]_vars

\* StopLearnSource has brought the processor back from LearningSource, where
\* the source scanner had been fed.
C6_Witness ==
    /\ Applied("StopLearnSource")
    /\ rt.control_state = "Controlling"
    /\ rt.source_scanner.state = "WaitingForMoreCcMsgs"

\* The last step has processed incoming MIDI.
MidiStep == FxStep \/ (step.op = "idle_end" /\ step.events # <<>>)

\* C7: while control_state is LearningSource, no incoming MIDI message gets
\* a Control task or is forwarded to the host output.
C7_LearningSuspendsControl ==
    (MidiStep /\ rt.control_state = "LearningSource")
    => Sent = <<>> /\ PassThrough = <<>>

\* C8 as stated: StartLearnSource and StopLearnSource each reset the NRPN
\* scanner, the 14-bit CC scanner and the source scanner.
C8_AsStated ==
    (Applied("StartLearnSource") \/ Applied("StopLearnSource"))
    => /\ rt.nrpn_scanner = NrpnScannerInit
       /\ rt.cc_14_bit_scanner = Cc14ScannerInit
       /\ rt.source_scanner = SourceScannerInit

\* C8, amended: StartLearnSource resets the three scanners; StopLearnSource
\* resets the NRPN scanner and the 14-bit CC scanner and leaves the source
\* scanner as it is; in Controlling state the source scanner is neither
\* changed nor does it report a source, until StartLearnSource resets it, so
\* nothing accumulated before a transition is matched or learned after it.
C8_ScannersReset ==
    /\ [](/\ Applied("StartLearnSource")
             => /\ rt.nrpn_scanner = NrpnScannerInit
                /\ rt.cc_14_bit_scanner = Cc14ScannerInit
                /\ rt.source_scanner = SourceScannerInit
          /\ Applied("StopLearnSource")
             => /\ rt.nrpn_scanner = NrpnScannerInit
                /\ rt.cc_14_bit_scanner = Cc14ScannerInit
          /\ rt.control_state = "Controlling" => rt.normal_main_task_sender = <<>>)
    /\ [][/\ Taking("StopLearnSource") => rt'.source_scanner = rt.source_scanner
          /\ (rt.control_state = "Controlling" /\ ~Taking("StartLearnSource"))
                => rt'.source_scanner = rt.source_scanner]_vars

\* StopLearnSource has been applied and the source scanner still waits for
\* more messages of the controller it has seen.
C8_Witness ==
    /\ Applied("StopLearnSource")
    /\ rt.source_scanner.state = "WaitingForMoreCcMsgs"
    /\ rt.nrpn_scanner = NrpnScannerInit
    /\ rt.cc_14_bit_scanner = Cc14ScannerInit

\* The last step has applied an UpdateMappingActivations task with an update
\* for an id that is not in the table (the task leaves the ids of the table
\* as they are).
UnknownActivation ==
    /\ Applied("UpdateMappingActivations")
    /\ \E i \in 1..Len(step.task.updates) : step.task.updates[i].id \notin DOMAIN rt.mappings

\* C10: an UpdateMappingActivations task with an update for an id that is not
\* in the table ends in a panic: idle does not go on and nothing is reported
\* to the main thread.
C10_UnknownIdPanics ==
    UnknownActivation => /\ rt.panicked
                         /\ pc = "normal"
                         /\ rt.normal_main_task_sender = <<>>

\* The update of mapping 1 was applied, the one of the unknown id panicked.
C10_Witness ==
    /\ UnknownActivation
    /\ rt.panicked
    /\ step.task.updates[1].id \in DOMAIN rt.mappings
    /\ rt.mappings[step.task.updates[1].id].mapping_is_active = step.task.updates[1].is_active

\* ------------------------------------------------- claims about the table
\* C11: EnableMappingsExclusively(S) leaves every mapping of the table with
\* target activation true if and only if its id is in S; nothing else of a
\* mapping changes, ids of S that are not in the table have no effect and
\* the set of mappings of the table stays as it is.
C11_EnableExclusively ==
    [][Taking("EnableMappingsExclusively")
        => LET S == Head(normal_task_queue).ids
           IN /\ DOMAIN rt'.mappings = DOMAIN rt.mappings
              /\ \A id \in DOMAIN rt.mappings :
                    /\ rt'.mappings[id].target_is_active <=> id \in S
                    /\ rt'.mappings[id] =
                         [rt.mappings[id] EXCEPT !.target_is_active = rt'.mappings[id].target_is_active]]_vars

\* Mapping 2 is switched on and mapping 1, whose mapping activation is off,
\* is switched off by a set that also names an id the table does not hold.
C11_Witness ==
    /\ Applied("EnableMappingsExclusively")
    /\ step.task.ids = {2, UnknownId}
    /\ DOMAIN rt.mappings = {1, 2}
    /\ rt.mappings[2].target_is_active
    /\ ~rt.mappings[1].target_is_active
    /\ ~rt.mappings[1].mapping_is_active

\* What a mapping is apart from its two activation bits.
Content(m) == [m EXCEPT !.mapping_is_active = TRUE, !.target_is_active = TRUE]
Contents(table) == [id \in DOMAIN table |-> Content(table[id])]

\* C12: the ids of the table and what the mappings are apart from their
\* activation bits change only with UpdateAllMappings (the table becomes the
\* sent mappings keyed by id) and UpdateSingleMapping (that id is inserted or
\* replaced, the others stay); the activation tasks change activation bits
\* only; every other step (MIDI, feedback task, UpdateSettings,
\* UpdateSampleRate, LogDebugInfo, learn transitions) leaves the table alone.
C12_TableFrame ==
    [][LET task == Head(normal_task_queue)
       IN /\ Taking("UpdateAllMappings")
               => /\ DOMAIN rt'.mappings = {task.mappings[i].id : i \in 1..Len(task.mappings)}
                  /\ \A id \in DOMAIN rt'.mappings :
                        \E i \in 1..Len(task.mappings) :
                            /\ task.mappings[i] = rt'.mappings[id]
                            /\ task.mappings[i].id = id
          /\ Taking("UpdateSingleMapping")
               => /\ DOMAIN rt'.mappings = DOMAIN rt.mappings \cup {task.mappings[1].id}
                  /\ \A id \in DOMAIN rt'.mappings :
                        rt'.mappings[id] = IF id = task.mappings[1].id
                                           THEN task.mappings[1] ELSE rt.mappings[id]
          /\ (Taking("EnableMappingsExclusively") \/ Taking("UpdateMappingActivations"))
               => Contents(rt'.mappings) = Contents(rt.mappings)
          /\ ~(\/ Taking("UpdateAllMappings") \/ Taking("UpdateSingleMapping")
               \/ Taking("EnableMappingsExclusively") \/ Taking("UpdateMappingActivations"))
               => rt'.mappings = rt.mappings]_vars

\* UpdateSingleMapping has replaced mapping 2 and left mapping 1, with its
\* mapping activation off, as it was.
C12_Witness ==
    /\ Applied("UpdateSingleMapping")
    /\ DOMAIN rt.mappings = {1, 2}
    /\ rt.mappings[2] = step.task.mappings[1]
    /\ rt.mappings[1].source = NoteVelocity
    /\ ~rt.mappings[1].mapping_is_active

\* ------------------------------ claims about the sends to the other tier
\* C13: a send of a Control task or a LearnSource task never blocks the
\* audio thread, also when the coordination tier does not drain its queue
\* and the queue is full.
C13_SendNeverBlocks == ~rt.blocked

\* A mapping that is on takes a note-on.
NoteOnMatches ==
    \E id \in DOMAIN rt.mappings :
        control_is_effectively_on(rt.mappings[id])
        /\ mapping_control(rt.mappings[id], Plain(NoteOn))

\* C14: with the receivers of the coordination tier dropped, the call that
\* tries to send a Control task (a note-on that a mapping takes) or a
\* LearnSource task (a note-on while learning) panics: nothing is sent,
\* nothing is forwarded after the failed send and the audio thread is not
\* called again; a call that sends nothing does not panic.
C14_DroppedReceiverPanics ==
    /\ (/\ rt.main_receivers = "Dropped"
        /\ FxStep /\ step.msg = NoteOn
        /\ rt.midi_control_input = "FxInput"
        /\ \/ rt.control_state = "Controlling" /\ NoteOnMatches
           \/ rt.control_state = "LearningSource" /\ rt.source_scanner.state = "Initial")
         => /\ rt.panicked
            /\ rt.host = <<>>
    /\ rt.panicked
         => /\ rt.main_receivers = "Dropped"
            /\ step.op \in {"fx_input", "idle_end"}
            /\ pc = "ready"
            /\ rt.control_main_task_sender = <<>>
            /\ rt.normal_main_task_sender = <<>>
    /\ (/\ rt.main_receivers = "Dropped"
        /\ FxStep /\ step.msg = NoteOn
        /\ rt.midi_control_input = "FxInput"
        /\ rt.control_state = "Controlling" /\ ~NoteOnMatches)
         => /\ ~rt.panicked
            /\ rt.host = <<Forward("unmatched", NoteOn)>> <=> rt.let_unmatched_events_through

\* The receivers are dropped and a note-on that mapping 1 takes has made
\* control() panic, with let_matched_events_through set.
C14_Witness ==
    /\ rt.main_receivers = "Dropped"
    /\ FxStep /\ step.msg = NoteOn
    /\ rt.control_state = "Controlling"
    /\ NoteOnMatches
    /\ rt.let_matched_events_through
    /\ rt.panicked

\* ----------------------------------------------------- claims about garbage
\* C15: the real-time processor never drops a mapping table or a mapping in
\* place: what UpdateAllMappings or UpdateSingleMapping replaces is handed to
\* the garbage queue, its destructor does not run on the audio thread.
C15_NoDropInPlace ==
    (Applied("UpdateAllMappings") \/ Applied("UpdateSingleMapping"))
    => rt.dropped_in_place = {}

\* C16: a GarbageBin is only ever constructed over a bounded channel, and
\* dispose on a full channel neither blocks nor fails: the item is dropped and
\* the caller goes on.
C16_DisposeOnFullContinues ==
    /\ bin.constructed => garbage.bounded
    /\ bin.panic # "Full"

\* C17: items leave the garbage channel only in a call of run, at most
\* GARBAGE_BULK_SIZE of them and the oldest first, or all of them when the
\* middleware is dropped; while the middleware lives and run keeps being
\* called, an item in the channel is eventually destroyed.
Destroyed == Range(garbage.items) \ Range(garbage'.items)

OldestFirst ==
    \A gone \in Destroyed : \A kept \in Range(garbage'.items) : gone < kept

C17_DestroyedByMiddleware ==
    /\ [][Destroyed # {} =>
            /\ bin' = bin
            /\ surface.lifecycle = "Alive"
            /\ \/ /\ surface'.lifecycle = "Alive"
                  /\ surface'.call = "run"
                  /\ Cardinality(Destroyed) <= GARBAGE_BULK_SIZE
                  /\ OldestFirst
                  /\ garbage'.items =
                        SubSeq(garbage.items, Cardinality(Destroyed) + 1,
                               Len(garbage.items))
               \/ /\ surface'.lifecycle = "Dropped"
                  /\ garbage'.items = <<>>]_vars
    /\ \A item \in {1, GARBAGE_BULK_SIZE + 1, GarbageCapacity + 1} :
          (surface.lifecycle = "Alive" /\ item \in Range(garbage.items))
              ~> (item \notin Range(garbage.items))

\* a run has destroyed GARBAGE_BULK_SIZE items and left the rest
C17_Witness ==
    /\ surface.lifecycle = "Alive"
    /\ surface.call = "run"
    /\ garbage.items # <<>>
    /\ Head(garbage.items) = GARBAGE_BULK_SIZE + 1

\* ------------------------------------------- claims about the control surface
\* C20: the middleware starts in Normal; StartLearningSources puts it in
\* LearningSource, StartLearningTargets in LearningTarget, StopLearning in
\* Normal, whatever the state was; nothing else changes the state; the main
\* processors execute run_all in Normal only and run_essential in the two
\* learning states only.
StateTasks == {"StartLearningSources", "StartLearningTargets", "StopLearning"}

StateAfter(t) ==
    CASE t = "StartLearningSources" -> "LearningSource"
      [] t = "StartLearningTargets" -> "LearningTarget"
      [] t = "StopLearning" -> "Normal"

\* the tasks a call of run takes that name a state
StateTasksTaken ==
    SelectSeq(SubSeq(surface.main_task_receiver, 1,
                     IF Len(surface.main_task_receiver) < CONTROL_SURFACE_MAIN_TASK_BULK_SIZE
                     THEN Len(surface.main_task_receiver)
                     ELSE CONTROL_SURFACE_MAIN_TASK_BULK_SIZE),
              LAMBDA t : t.type \in StateTasks)

\* the methods a call has called
Calls(s) == {s.effects[i].call : i \in 1..Len(s.effects)}

C20_SurfaceState ==
    [][/\ surface.lifecycle = "Unborn" /\ surface'.lifecycle = "Alive"
            => surface'.state = "Normal"
       /\ surface.lifecycle = "Alive" /\ surface' # surface =>
            /\ surface'.call = "run" =>
                  /\ surface'.state =
                        IF StateTasksTaken = <<>> THEN surface.state
                        ELSE StateAfter(StateTasksTaken[Len(StateTasksTaken)].type)
                  /\ surface'.main_processors # <<>> =>
                        /\ "run_all" \in Calls(surface')
                              <=> surface'.state = "Normal"
                        /\ "run_essential" \in Calls(surface')
                              <=> surface'.state \in {"LearningSource", "LearningTarget"}
                  /\ surface'.main_processors = <<>> =>
                        Calls(surface') \cap {"run_all", "run_essential"} = {}
            /\ surface'.call # "run" =>
                  /\ surface'.state = surface.state
                  /\ \/ surface'.effects = surface.effects
                     \/ Calls(surface') \cap {"run_all", "run_essential"} = {}]_vars

\* a run in LearningSource has taken a LogDebugInfo and a StartLearningTargets
\* task and has made the main processor run its essential part
C20_Witness ==
    /\ surface.call = "run"
    /\ surface.state = "LearningTarget"
    /\ surface.main_processors # <<>>
    /\ Calls(surface) = {"log_debug_info", "run_essential"}

\* C21: a run takes from each queue of the middleware the first items, at most
\* as many as the bulk size of the queue, processes them in the order they
\* were sent, and leaves the other items in the queue, in their order.
QueueCall(field) ==
    CASE field = "main_task_receiver" -> "log_debug_info"
      [] field = "server_task_receiver" -> "provide_prometheus_metrics"
      [] field = "additional_feedback_event_receiver" -> "rx.fx_parameter_value_changed"
      [] field = "instance_orchestration_event_receiver" -> "update_io_usage"

\* the numbers of the items of the queue a call has processed, in order
Processed(s, field) ==
    LET done == SelectSeq(s.effects, LAMBDA d : d.call = QueueCall(field))
    IN [i \in 1..Len(done) |-> done[i].arg]

Numbers(field, items) == [i \in 1..Len(items) |-> ItemNumber(field, items[i])]

FirstOf(items, n) == SubSeq(items, 1, IF Len(items) < n THEN Len(items) ELSE n)

RestOf(items, n) == SubSeq(items, (IF Len(items) < n THEN Len(items) ELSE n) + 1, Len(items))

C21_BudgetsAndFifo ==
    [][(surface.lifecycle = "Alive" /\ surface'.call = "run"
            /\ <<surface, garbage>>' # <<surface, garbage>> /\ bin' = bin) =>
          /\ \A field \in Queues :
                /\ Processed(surface', field)
                      = Numbers(field, FirstOf(surface[field], BulkSize(field)))
                /\ surface'[field] = RestOf(surface[field], BulkSize(field))
          /\ garbage'.items = RestOf(garbage.items, GARBAGE_BULK_SIZE)]_vars

\* a run has taken the first items of five full queues and has left
\* BulkExtra items in each queue of the middleware and GarbageExtra items of
\* garbage
C21_Witness ==
    /\ surface.call = "run"
    /\ \A field \in Queues :
          /\ Len(surface[field]) = BulkExtra
          /\ ItemNumber(field, surface[field][1]) = BulkSize(field) + 1
          /\ Len(Processed(surface, field)) = BulkSize(field)
    /\ Len(garbage.items) = GarbageExtra
    /\ garbage.items[1] = GARBAGE_BULK_SIZE + 1

\* the calls of the log that are made for the n-th change event, in order
CallsFor(s, n) ==
    LET made == SelectSeq(s.effects, LAMBDA d : d.arg = n /\ d.call # "change_detection_middleware.process")
    IN [i \in 1..Len(made) |-> made[i].call]

Listeners ==
    {"process_control_surface_change_event", "rx_middleware.handle_change",
     "set_last_touched_target", "notify_target_touched"}

Positions(s, calls) == {i \in 1..Len(s.effects) : s.effects[i].call \in calls}

\* C22: handle_event hands the event to the change detection in each of the
\* three states and before anything else; for one change event the main
\* processors are served before the rx middleware and before the last-touched
\* target is set.
C22_ChangeDetectionFirst ==
    surface.call = "handle_event" =>
        /\ Positions(surface, {"change_detection_middleware.process"}) = {1}
        /\ \A i \in Positions(surface, {"process_control_surface_change_event"}) :
              \A j \in Positions(surface, {"rx_middleware.handle_change",
                                           "set_last_touched_target"}) :
                 surface.effects[i].arg = surface.effects[j].arg => i < j
        /\ \A n \in 1..Len(surface.changes) :
              \A j \in Positions(surface, {"set_last_touched_target"}) :
                 (surface.effects[j].arg = n /\ surface.main_processors # <<>>)
                    => \E i \in 1..(j - 1) :
                          /\ surface.effects[i].arg = n
                          /\ surface.effects[i].call = "process_control_surface_change_event"

\* two change events of one host event in Normal state, the second one
\* touched: each has gone to the main processor, then to the rx middleware,
\* and the second has set the last-touched target
C22_Witness ==
    /\ surface.call = "handle_event"
    /\ surface.state = "Normal"
    /\ Len(surface.main_processors) = 1
    /\ Len(surface.changes) = 2
    /\ CallsFor(surface, 1) = <<"process_control_surface_change_event",
                                "rx_middleware.handle_change">>
    /\ CallsFor(surface, 2) = <<"process_control_surface_change_event",
                                "rx_middleware.handle_change", "set_last_touched_target",
                                "notify_target_touched">>

\* the processors served by the calls of one kind made for the n-th change event
ServedFor(s, call, n) ==
    {s.effects[i].to : i \in {j \in Positions(s, {call}) : s.effects[j].arg = n}}

Registered(s) == {s.main_processors[i].instance_id : i \in 1..Len(s.main_processors)}

\* C23: in Normal state every change event goes to every main processor, and
\* the last-touched target is set and notify_target_touched is called only
\* for a change event tagged as touched.
C23_OnlyTouchedSetsLastTouched ==
    (surface.call = "handle_event" /\ surface.state = "Normal") =>
        \A n \in 1..Len(surface.changes) :
           /\ ServedFor(surface, "process_control_surface_change_event", n)
                 = Registered(surface)
           /\ ~surface.changes[n].touched =>
                 /\ ServedFor(surface, "set_last_touched_target", n) = {}
                 /\ ServedFor(surface, "notify_target_touched", n) = {}

\* the numbers of the change events offered to the sender of learned targets
Offered(s) ==
    LET made == SelectSeq(s.effects, LAMBDA d : d.call = "learn_target_sender.try_send")
    IN [i \in 1..Len(made) |-> made[i].arg]

\* the numbers of the change events that denote a target, in order
RECURSIVE Targets(_, _)
Targets(changes, n) ==
    IF n > Len(changes) THEN <<>>
    ELSE (IF touched_from_change_event(changes[n]) THEN <<n>> ELSE <<>>)
            \o Targets(changes, n + 1)

CalledOn(s, call) ==
    LET made == SelectSeq(s.effects, LAMBDA d : d.call = call)
    IN [i \in 1..Len(made) |-> made[i].to]

InstancesOf(s) == [i \in 1..Len(s.main_processors) |-> s.main_processors[i].instance_id]

\* the instances up to the first one of accepting, all of them if there is none
UpToFirst(ids, accepting) ==
    LET hits == {i \in 1..Len(ids) : ids[i] \in accepting}
    IN IF hits = {} THEN ids
       ELSE SubSeq(ids, 1, CHOOSE i \in hits : \A j \in hits : i <= j)

\* C29: when a run processes the SourceReleased event of instance X, the
\* main processors are asked to take the source over in the order of their
\* registration, X among them, up to the first one that accepts (nobody is
\* asked if the feedback value yields no source); finally_switch_off_source
\* is called on X, once, if and only if no processor has accepted and X is
\* registered.
C29_SourceReleased ==
    [][(surface.lifecycle = "Alive" /\ surface'.call = "run"
            /\ surface.instance_orchestration_event_receiver # <<>>
            /\ surface'.instance_orchestration_event_receiver = <<>>) =>
          LET e == surface.instance_orchestration_event_receiver[1]
              ids == InstancesOf(surface')
              asked == CalledOn(surface', "maybe_takeover_source")
              accepted == \E i \in 1..Len(asked) : asked[i] \in e.accepting
          IN /\ asked = IF e.has_source THEN UpToFirst(ids, e.accepting) ELSE <<>>
             /\ CalledOn(surface', "finally_switch_off_source") =
                   IF ~accepted /\ e.instance_id \in Range(ids)
                   THEN <<e.instance_id>> ELSE <<>>]_vars

\* instance 1 has released a source that instance 2 takes over: 1 and 2 have
\* been asked in this order and the source has not been switched off
C29_Witness ==
    /\ surface.call = "run"
    /\ InstancesOf(surface) = <<1, 2>>
    /\ CalledOn(surface, "maybe_takeover_source") = <<1, 2>>
    /\ CalledOn(surface, "finally_switch_off_source") = <<>>

\* nobody takes the source over: it is switched off on the releasing instance
C29_WitnessSwitchedOff ==
    /\ surface.call = "run"
    /\ InstancesOf(surface) = <<1, 2>>
    /\ CalledOn(surface, "maybe_takeover_source") = <<1, 2>>
    /\ CalledOn(surface, "finally_switch_off_source") = <<2>>

\* the messages of a packet in document order
RECURSIVE MessagesOf(_)
RECURSIVE MessagesOfAll(_)
MessagesOfAll(packets) ==
    IF packets = <<>> THEN <<>>
    ELSE MessagesOf(Head(packets)) \o MessagesOfAll(Tail(packets))

MessagesOf(packet) ==
    IF packet.bundle THEN MessagesOfAll(packet.content) ELSE <<packet.n>>

\* the packets a run polls from the i-th input device
Polled(e, i) ==
    LET waiting == IF i \in DOMAIN e.packets THEN e.packets[i] ELSE <<>>
    IN FirstOf(waiting, OSC_INCOMING_BULK_SIZE)

\* what processor p must get of the devices from the i-th on: the packets
\* polled from the devices it receives from
RECURSIVE DueTo(_, _, _, _)
DueTo(p, devs, e, i) ==
    IF i > Len(devs) THEN <<>>
    ELSE (IF p.osc_device = devs[i] THEN Numbers("osc", Polled(e, i)) ELSE <<>>)
            \o DueTo(p, devs, e, i + 1)

\* the offers due to the learn sender for the devices from the i-th on
RECURSIVE OffersDue(_, _, _)
OffersDue(devs, e, i) ==
    IF i > Len(devs) THEN <<>>
    ELSE LET messages == MessagesOfAll(Polled(e, i))
         IN [k \in 1..Len(messages) |-> <<devs[i], messages[k]>>]
               \o OffersDue(devs, e, i + 1)

DeliveredTo(s, id) ==
    LET got == SelectSeq(s.effects,
                         LAMBDA d : d.call = "process_incoming_osc_packet" /\ d.to = id)
    IN [i \in 1..Len(got) |-> got[i].arg]

SourceOffers(s) ==
    LET made == SelectSeq(s.effects, LAMBDA d : d.call = "learn_source_sender.try_send")
    IN [i \in 1..Len(made) |-> <<made[i].to, made[i].arg>>]

\* C24: a run polls at most OSC_INCOMING_BULK_SIZE packets from each input
\* device; in Normal state each main processor gets, in polled order, the
\* packets of the devices it receives from and no others; in LearningSource
\* state each message of the packets, bundles flattened, is offered once to
\* the learn sender with its device id, in document order; in LearningTarget
\* state nothing is delivered or offered.
C24_OscPackets ==
    [][\A e \in OscRunEnvs :
          (surface.lifecycle = "Alive" /\ surface' = run_internal(surface, e)) =>
              LET devs == surface'.osc_input_devices
              IN /\ \A i \in 1..Len(surface'.main_processors) :
                       LET p == surface'.main_processors[i]
                       IN DeliveredTo(surface', p.instance_id) =
                             IF surface'.state = "Normal" THEN DueTo(p, devs, e, 1) ELSE <<>>
                 /\ SourceOffers(surface') =
                       IF surface'.state = "LearningSource" THEN OffersDue(devs, e, 1)
                       ELSE <<>>
                 /\ Cardinality(Positions(surface', {"process_incoming_osc_packet"}))
                       <= Len(surface'.main_processors) * Len(devs) * OSC_INCOMING_BULK_SIZE]_vars

\* Normal state, devices 2 and 1 with more than OSC_INCOMING_BULK_SIZE
\* packets waiting in device 2: processor 1, which receives from device 1, has
\* got the three packets of device 1, processor 2 the first
\* OSC_INCOMING_BULK_SIZE packets of device 2
C24_Witness ==
    /\ surface.call = "run"
    /\ surface.state = "Normal"
    /\ surface.osc_input_devices = <<2, 1>>
    /\ surface.main_processors = <<MainProcessor(1, 1), MainProcessor(2, 2)>>
    /\ DeliveredTo(surface, 1) = <<1, 2, 8>>
    /\ DeliveredTo(surface, 2) = [i \in 1..OSC_INCOMING_BULK_SIZE |-> 100 + i]

\* LearningSource state: the messages of the nested bundle have been offered
\* in document order
C24_WitnessLearning ==
    /\ surface.call = "run"
    /\ surface.state = "LearningSource"
    /\ surface.osc_input_devices = <<1>>
    /\ SourceOffers(surface) = <<<<1, 1>>, <<1, 3>>, <<1, 5>>, <<1, 6>>, <<1, 7>>, <<1, 8>>>>

\* C25: a call of add_device, update_device or remove_device_by_id that
\* returns an error leaves the devices of the manager as they were and
\* notifies nobody.
C25_ErrorLeavesDevices ==
    [][manager'.result # "Ok" =>
          /\ manager'.devices = manager.devices
          /\ ~manager'.notified]_vars

\* ------------------------------------ claims about pass-through and learning
\* C26: in Controlling state with the FX input as control input, a call of
\* the FX input handler forwards the incoming message at most once: the
\* message that completes an NRPN or 14-bit CC message is not forwarded both
\* as one of its short messages and as a plain message.
C26_ForwardedAtMostOnce ==
    (FxStep /\ rt.control_state = "Controlling" /\ rt.midi_control_input = "FxInput")
    => Cardinality({i \in 1..Len(PassThrough) : PassThrough[i].msg = step.msg}) <= 1

\* what a feedback of the short messages adds to the host output
AsFeedback(shorts) == [i \in 1..Len(shorts) |-> Forward("feedback", shorts[i])]

\* C27: in a call of idle no normal task is applied once the loop over the
\* feedback tasks has begun, so the feedback output is the one the normal
\* tasks of the call have left; a Feedback task taken is written there: its
\* short messages go to the host with FxOutput, to the device with a device;
\* with no output, or no short message, the task is taken and nothing is
\* written.
C27_FeedbackAfterNormalTasks ==
    [][/\ step'.op = "normal_task" => pc = "normal"
       /\ pc = "feedback" => rt'.midi_feedback_output = rt.midi_feedback_output
       /\ (pc = "feedback" /\ step'.op = "feedback_task") =>
             LET shorts == to_short_messages(Head(feedback_task_queue).value)
                 output == rt.midi_feedback_output
             IN /\ feedback_task_queue' = Tail(feedback_task_queue)
                /\ rt'.host = rt.host \o (IF output = "FxOutput" THEN AsFeedback(shorts)
                                            ELSE <<>>)
                /\ rt'.device_out = rt.device_out \o (IF output \notin {"None", "FxOutput"}
                                                        THEN shorts ELSE <<>>)]_vars

\* in the call in which UpdateSettings has set a device as feedback output, a
\* Feedback task with a 14-bit CC value: its two short messages have gone to
\* the device, nothing to the host
C27_Witness ==
    /\ step.op = "feedback_task"
    /\ pc = "feedback"
    /\ rt.midi_feedback_output = "Device"
    /\ rt.device_out = <<CC(6), CC(38)>>
    /\ rt.host = <<>>

\* C28: with a device as control input nothing is forwarded to the host as
\* pass-through, whatever the two flags, and a message of the FX input gets
\* no Control task and no LearnSource task.
C28_DeviceInput ==
    rt.midi_control_input = "Device" =>
        /\ PassThrough = <<>>
        /\ FxStep => rt.control_main_task_sender = <<>> /\ rt.normal_main_task_sender = <<>>

\* a note-on of the device that a mapping matches, with matched messages let
\* through: it has a Control task and has not gone to the host
C28_Witness ==
    /\ rt.midi_control_input = "Device"
    /\ rt.let_matched_events_through
    /\ step.op = "idle_end"
    /\ step.events = <<NoteOn>>
    /\ rt.control_main_task_sender # <<>>
    /\ rt.host = <<>>

\* a note-on of the FX input while a device is the control input, a mapping
\* for it in the table and unmatched messages let through
C28_WitnessFxInput ==
    /\ rt.midi_control_input = "Device"
    /\ rt.let_unmatched_events_through
    /\ FxStep
    /\ step.msg = NoteOn
    /\ \E i \in DOMAIN rt.mappings : rt.mappings[i].source = NoteVelocity

\* C31: after make_mappings_project_independent no mapping of the list has a
\* project reference.
C31_ProjectIndependent ==
    last_call.fn = "make_mappings_project_independent" =>
        ~mappings_have_project_references(last_call.result)

\* C32: apply_to_model_flexible sets the out-of-range behaviour to Ignore when
\* the legacy flag ignore_out_of_range_source_values_is_enabled is true and the
\* takeover mode to LongTimeNoSee when the legacy flag scale_mode_enabled is
\* true, whatever is stored; with a flag false the stored value is applied.
C32_LegacyFlags ==
    last_call.fn = "apply_to_model_flexible" =>
        LET data == last_call.data
            result == last_call.result
        IN /\ data.ignore_out_of_range_source_values_is_enabled =>
                  result.out_of_range_behavior = "Ignore"
           /\ ~data.ignore_out_of_range_source_values_is_enabled =>
                  result.out_of_range_behavior = data.out_of_range_behavior
           /\ data.scale_mode_enabled => result.takeover_mode = "LongTimeNoSee"
           /\ ~data.scale_mode_enabled => result.takeover_mode = data.takeover_mode

\* Both legacy flags are set and both stored values differ from what the flags
\* stand for.
C32_Witness ==
    /\ last_call.fn = "apply_to_model_flexible"
    /\ last_call.data.ignore_out_of_range_source_values_is_enabled
    /\ last_call.data.out_of_range_behavior = "Min"
    /\ last_call.data.scale_mode_enabled
    /\ last_call.data.takeover_mode = "Parallel"
    /\ last_call.result.out_of_range_behavior = "Ignore"
    /\ last_call.result.takeover_mode = "LongTimeNoSee"

\* C33: apply_to_model_flexible applies the inverse of the saved target
\* interval if the migration descriptor asks for
\* target_interval_transformation_117, reverse_is_enabled is true and the type
\* is AbsoluteMode::Normal, and the saved target interval in every other case.
C33_TargetInterval117 ==
    last_call.fn = "apply_to_model_flexible" =>
        LET data == last_call.data
            saved == Interval(data.min_target_value, data.max_target_value)
            inverts == /\ last_call.migration_descriptor.target_interval_transformation_117
                       /\ data.reverse_is_enabled
                       /\ data.type = "Normal"
        IN last_call.result.target_value_interval =
               IF inverts THEN Interval(UnitValueOne - saved.max_val, UnitValueOne - saved.min_val)
               ELSE saved

\* An interval that differs from its inverse has been inverted.
C33_Witness ==
    /\ last_call.fn = "apply_to_model_flexible"
    /\ last_call.migration_descriptor.target_interval_transformation_117
    /\ last_call.data.reverse_is_enabled
    /\ last_call.data.type = "Normal"
    /\ last_call.data.min_target_value = 20
    /\ last_call.result.target_value_interval = Interval(50, 80)

\* The same interval is applied as saved because the type is not Normal.
C33_WitnessOtherType ==
    /\ last_call.fn = "apply_to_model_flexible"
    /\ last_call.migration_descriptor.target_interval_transformation_117
    /\ last_call.data.reverse_is_enabled
    /\ last_call.data.type = "ToggleButtons"
    /\ last_call.result.target_value_interval = Interval(20, 50)

\* C34 as stated: the model loaded from from_model(m) equals m in every mode
\* property, and its data equals from_model(m).
C34_SaveLoadIdentity ==
    last_call.fn = "apply_to_model" =>
        /\ \A property \in DOMAIN last_call.m :
              last_call.result[property] = last_call.m[property]
        /\ last_call.data_of_result = last_call.data

\* A duration as it is after saving and loading: whole milliseconds, below 2^64.
TruncatedToMillis(duration) == Duration(0, duration.millis, 0)

\* C34, amended: the model loaded from from_model(m) equals m in every mode
\* property except that the press durations and the turbo rate are cut to
\* whole milliseconds (modulo 2^64), and its data equals from_model(m).
C34_SaveLoadUpToMillis ==
    last_call.fn = "apply_to_model" =>
        /\ \A property \in DOMAIN last_call.m \ {"press_duration_interval", "turbo_rate"} :
              last_call.result[property] = last_call.m[property]
        /\ last_call.result.press_duration_interval =
              Interval(TruncatedToMillis(last_call.m.press_duration_interval.min_val),
                       TruncatedToMillis(last_call.m.press_duration_interval.max_val))
        /\ last_call.result.turbo_rate = TruncatedToMillis(last_call.m.turbo_rate)
        /\ last_call.data_of_result = last_call.data

\* A model that differs from the model it is loaded into, with a turbo rate
\* that is not a whole number of milliseconds.
C34_Witness ==
    /\ last_call.fn = "apply_to_model"
    /\ last_call.m.reverse /\ ~last_call.model.reverse
    /\ last_call.m.type = "ToggleButtons"
    /\ last_call.m.turbo_rate = Duration(0, 50, 500000)
    /\ last_call.result.turbo_rate = from_millis(50)
    /\ last_call.result.reverse

\* C35: for every count >= 1 and every index i < count, converting Some(i) to
\* a unit value and back gives Some(i); None becomes the unit value 0, the unit
\* value 0 becomes None and the unit value 1 becomes the index count - 1.
C35_DiscreteRoundTrip ==
    /\ last_call.fn = "convert_discrete_to_unit_value_with_none" =>
          /\ (/\ last_call.value.some
              /\ last_call.count >= 1
              /\ last_call.value.value < last_call.count) => last_call.back = last_call.value
          /\ ~last_call.value.some => last_call.result.num = 0
    /\ last_call.fn = "convert_unit_to_discrete_value_with_none" =>
          /\ last_call.value.num = 0 => last_call.result = None
          /\ (last_call.value.num = last_call.value.den /\ last_call.count >= 1) =>
                 last_call.result = Some(last_call.count - 1)

\* The index 1 of 3 has become 2/3 and the index 1 again.
C35_Witness ==
    /\ last_call.fn = "convert_discrete_to_unit_value_with_none"
    /\ last_call.value = Some(1)
    /\ last_call.count = 3
    /\ last_call.result = Fraction(2, 3)
    /\ last_call.back = Some(1)

\* The unit value 1 has become the last of 3 indexes.
C35_WitnessOne ==
    /\ last_call.fn = "convert_unit_to_discrete_value_with_none"
    /\ last_call.value = Fraction(2, 2)
    /\ last_call.count = 3
    /\ last_call.result = Some(2)

\* The kind of value does not fit the target: a relative value for a target
\* other than an action of relative invocation type, or an absolute value for
\* an action of relative invocation type.
KindMismatch(target, value) ==
    LET relative_action == target.type = "Action" /\ target.invocation_type = "Relative"
    IN \/ value.kind = "Relative" /\ ~relative_action
       \/ value.kind = "Absolute" /\ relative_action

\* C36 as stated: control returns an error without a call on the host when the
\* kind of value does not fit the target, and Ok after invoking the target in
\* every other case.
C36_ErrorOnlyOnKindMismatch ==
    last_call.fn = "control" =>
        IF KindMismatch(last_call.target, last_call.value)
        THEN last_call.result.result = "Err" /\ last_call.result.host = <<>>
        ELSE last_call.result.result = "Ok" /\ last_call.result.host # <<>>

\* An absolute value of zero for a target that acts on other values only.
ZeroForTrigger(target, value) ==
    /\ \/ target.type = "Action" /\ target.invocation_type = "Trigger"
       \/ target.type = "LoadFxSnapshot"
    /\ value.kind = "Absolute"
    /\ value.value.num = 0

\* C36, amended: control returns an error without a call on the host when the
\* kind of value does not fit the target, and also, with "track not available",
\* for a SelectedTrack target whose project has no track and a value other than
\* zero; for an FxParameter target whose value the host refuses it panics; in
\* every other case it returns Ok, after invoking the target unless the value
\* is zero and the target an action of invocation type Trigger or LoadFxSnapshot.
C36_ControlResult ==
    last_call.fn = "control" =>
        LET target == last_call.target
            value == last_call.value
            result == last_call.result
        IN IF KindMismatch(target, value)
           THEN result.result = "Err" /\ result.host = <<>>
           ELSE IF target.type = "SelectedTrack" /\ target.track_count = 0 /\ value.value.num # 0
                THEN result.result = "Err" /\ result.error = "track not available"
                     /\ result.host = <<>>
                ELSE IF target.type = "FxParameter" /\ ~target.host_accepts
                     THEN result.result = "Panic"
                     ELSE /\ result.result = "Ok"
                          /\ result.host = <<>> <=> ZeroForTrigger(target, value)

\* A relative value for a track volume target has been refused.
C36_Witness ==
    /\ last_call.fn = "control"
    /\ last_call.target.type = "TrackVolume"
    /\ last_call.value.kind = "Relative"
    /\ last_call.result.result = "Err"
    /\ last_call.result.host = <<>>

\* An absolute value has selected the last track of the project.
C36_WitnessSelectedTrack ==
    /\ last_call.fn = "control"
    /\ last_call.target.type = "SelectedTrack"
    /\ last_call.target.track_count = 2
    /\ last_call.value = Absolute(Fraction(1, 1))
    /\ last_call.result = Ok(<<HostCall("track.select_exclusively", 1)>>)

\* C37: no two devices of the configuration of the OSC device manager have
\* the same id, whatever add_device, update_device and remove_device_by_id
\* have been called with.
C37_UniqueDeviceIds ==
    \A i, j \in 1..Len(manager.devices) :
        manager.devices[i].id = manager.devices[j].id => i = j

\* C18: while let_unmatched_events_through is false nothing reaches the host
\* output by the unmatched path, and what reaches it by the plain, the NRPN or
\* the 14-bit CC path has got a Control task for a mapping with a source of
\* that kind: a message that matched no mapping that is on is not forwarded.
SentFor(kinds) ==
    {j \in 1..Len(Sent) : rt.mappings[Sent[j].mapping_id].source.kind \in kinds}

C18_UnmatchedNotForwarded ==
    ~rt.let_unmatched_events_through =>
        \A i \in 1..Len(PassThrough) :
            LET h == PassThrough[i]
            IN /\ h.via # "unmatched"
               /\ h.via = "matched" =>
                     \E j \in SentFor(PlainSourceKinds) :
                         mapping_control(rt.mappings[Sent[j].mapping_id], Plain(h.msg))
               /\ h.via = "nrpn" => SentFor({"ParameterNumberValue"}) # {}
               /\ h.via = "cc14" => SentFor({"ControlChange14BitValue"}) # {}

\* a note-off at the start of the transport, with a note mapping in the table
\* and matched messages let through: not forwarded
C18_Witness ==
    /\ FxStep
    /\ Starting
    /\ step.msg = NoteOff
    /\ rt.midi_control_input = "FxInput"
    /\ rt.let_matched_events_through /\ ~rt.let_unmatched_events_through
    /\ 1 \in DOMAIN rt.mappings
    /\ control_is_effectively_on(rt.mappings[1])
    /\ rt.mappings[1].source = NoteVelocity
    /\ Sent = <<>>
    /\ rt.host = <<>>

\* C19: LearnSource tasks are sent in LearningSource state only, one for each
\* source the source scanner reports, when it is fed the values of a message
\* and when it is polled at the end of idle; in Controlling state the scanner
\* is neither fed nor polled: it stays as it is and nothing is sent.
\* The values the FX input handler feeds for msg: the NRPN and the 14-bit CC
\* message that msg completes, then msg itself.
ValuesOf(msg) ==
    LET n == NrpnFeed(rt.nrpn_scanner, msg)
        c == Cc14Feed(rt.cc_14_bit_scanner, msg)
    IN (IF n.out # NoValue THEN <<n.out>> ELSE <<>>)
       \o (IF c.out # NoValue THEN <<c.out>> ELSE <<>>)
       \o <<Plain(msg)>>

\* The scanner after the values and the sources it has reported.
RECURSIVE Reports(_, _, _)
Reports(sc, values, guess) ==
    IF values = <<>> THEN [sc |-> sc, out |-> <<>>]
    ELSE LET first == SourceScannerFeed(sc, Head(values), guess)
             rest == Reports(first.sc, Tail(values), guess)
         IN [sc |-> rest.sc,
             out |-> (IF first.out # NoSource THEN <<first.out>> ELSE <<>>) \o rest.out]

LearnSourceTasks(sources) == [i \in 1..Len(sources) |-> LearnSourceTask(sources[i])]

\* The FX input handler feeds the message of the step that is beginning.
Feeds(msg, playing) ==
    /\ rt.control_state = "LearningSource"
    /\ rt.midi_control_input = "FxInput"
    /\ msg.type \in NormalTypes
    /\ ~(msg.type = "NoteOff" /\ ~rt.was_playing_in_last_cycle /\ playing)

C19_LearnSource ==
    /\ [](rt.normal_main_task_sender # <<>> =>
            /\ rt.control_state = "LearningSource"
            /\ \A i \in 1..Len(rt.normal_main_task_sender) :
                  rt.normal_main_task_sender[i].type = "LearnSource")
    /\ [][/\ step'.op = "fx_input" /\ pc = "ready" =>
                IF Feeds(step'.msg, step'.playing)
                THEN \E guess \in BOOLEAN :
                        LET fed == Reports(rt.source_scanner, ValuesOf(step'.msg), guess)
                        IN /\ rt'.normal_main_task_sender = LearnSourceTasks(fed.out)
                           /\ rt'.source_scanner = fed.sc
                ELSE /\ rt'.normal_main_task_sender = <<>>
                     /\ rt'.source_scanner = rt.source_scanner
          /\ step'.op = "idle_end" /\ pc = "feedback" /\ step'.events = <<>> =>
                IF rt.control_state = "LearningSource"
                THEN \E guess \in BOOLEAN :
                        LET polled == SourceScannerPoll(rt.source_scanner, guess)
                        IN /\ rt'.normal_main_task_sender =
                                 LearnSourceTasks(IF polled.out # NoSource
                                                  THEN <<polled.out>> ELSE <<>>)
                           /\ rt'.source_scanner = polled.sc
                ELSE /\ rt'.normal_main_task_sender = <<>>
                     /\ rt'.source_scanner = rt.source_scanner]_vars

\* the poll at the end of idle has reported the controller the scanner had
\* seen, and one LearnSource task was sent
C19_Witness ==
    /\ step.op = "idle_end"
    /\ step.events = <<>>
    /\ rt.control_state = "LearningSource"
    /\ rt.source_scanner = SourceScannerInit
    /\ rt.normal_main_task_sender = <<LearnSourceTask(Source("ControlChangeValue", 6))>>

====
